---- MODULE Spec2Model ----
(***************************************************************************)
(* Model of the YTSummarizer backend: the token-budget functions           *)
(* (app/utils/token_management.py), the chunked retriever (archive/rag.py),*)
(* the Redis-backed cache (app/core/cache.py, app/utils/cache.py) and the  *)
(* question/summary request handlers that call the LLM.                    *)
(*                                                                         *)
(* Text.  A text is a sequence of placed words.  A placed word is a record *)
(*   [w: the word, len: its number of characters,                          *)
(*    stop: whether its last character is one of . ! ?,                    *)
(*    gap: the number of whitespace characters that follow it].            *)
(* len(text), text.split(), re.split(r'(?<=[.!?])\s+', text) and           *)
(* " ".join(...) only depend on these four attributes.  Texts have no      *)
(* leading whitespace; the empty text is << >>.                            *)
(***************************************************************************)
EXTENDS Integers, Sequences, FiniteSets, TLC

VARIABLES
    \* ---- arguments and result of one call of a pure function
    transcript,        \* the transcript argument (a text)
    question,          \* the current question (a text)
    history,           \* the conversation history: sequence of [role, content]
    max_tokens,        \* the budget argument (max_tokens / max_history_tokens)
    chunk_size,        \* chunk_transcript's chunk_size
    chunk_overlap,     \* chunk_transcript's chunk_overlap
    embedder,          \* what the embedding model does in this call
    top_k,             \* search_relevant_chunks' top_k
    chunk_embeddings,  \* search_relevant_chunks' chunk_embeddings
    embedding_model,   \* rag.py's global embedding_model: None or an instance
    load_attempts,     \* how often SentenceTransformer(model_name) was called
    tiktoken_pkg,      \* the tokenizer package: installed or not, and its get_encoding
    token_module,      \* token_management: not imported, failed, or its count_tokens
    start,             \* chunk_transcript's loop variable start
    chunks,            \* chunk_transcript's list chunks
    called,            \* the function that has been applied ("none" before)
    ret,               \* what it returned
    \* ---- the cache (app/core/cache.py, app/utils/cache.py)
    redis_client,      \* the module's client: None or "client"
    init_attempted,    \* _init_attempted
    reachable,         \* whether the Redis server answers
    redis_db,          \* the keys Redis holds, each with its document
    maxmemory,         \* maxmemory of INFO memory (0: not set)
    used_memory,       \* used_memory of INFO memory
    max_cache_keys,    \* MAX_CACHE_KEYS, read from the environment
    now,               \* the clock
    tasks,             \* the set_cache coroutines in flight
    last_op,           \* the last cache call that returned
    prev_op,           \* the one that returned before it
    last_cleanup,      \* the last run of apply_lru_cleanup
    deleted,           \* keys deleted or cleared while no caller's set of
                       \* the key was running, with no set called since
    inserted,          \* number of inserts begun in the scenario of InitFill
    expiring,          \* [key, expire_at] of every key whose last set_cache
                       \* by a caller wrote it with a ttl
    last_set,          \* [key, value] of the set_cache by a caller that
                       \* wrote the key last
    \* ---- the request handlers and the database
    video_chats,       \* db.video_chats: the chat documents of the video
    summaries,         \* db.summaries: the summary documents of the video
    requests,          \* the requests being handled, each with its locals
    gemini_api_key     \* whether settings.ai.GEMINI_API_KEY is set

fnVars == <<transcript, question, history, max_tokens, chunk_size,
            chunk_overlap, embedder, top_k, chunk_embeddings,
            embedding_model, load_attempts, tiktoken_pkg, token_module, start, chunks, called, ret>>

cacheVars == <<redis_client, init_attempted, reachable, redis_db, maxmemory,
               used_memory, max_cache_keys, now, tasks, last_op, prev_op,
               last_cleanup, deleted, inserted, expiring, last_set>>

chatVars == <<video_chats, summaries, requests, gemini_api_key>>

vars == <<fnVars, cacheVars, chatVars>>

----------------------------------------------------------------------------
(* Bounds of the model *)

\* instants the clock reaches
MaxClock == 2
\* number of set_cache coroutines in flight at once
MaxTasks == 2
\* hits counted per entry
MaxAccessCount == 2
\* requests handled
MaxRequests == 2

\* words per generated transcript
MaxWords == 3
\* largest budget argument tried with the small transcripts
MaxBudget == 3
\* turns per generated conversation history
MaxHistory == 3
\* words per transcript handed to chunk_transcript
MaxChunkWords == 6
\* largest chunk_size tried
MaxChunkSize == 4
\* chunks handed to search_relevant_chunks
MaxSearchChunks == 3

----------------------------------------------------------------------------
(* Text *)

Word(w, len, stop) == [w |-> w, len |-> len, stop |-> stop]

Placed(wd, gap) == [w |-> wd.w, len |-> wd.len, stop |-> wd.stop, gap |-> gap]

\* a small vocabulary: a plain word, a short sentence end, a long sentence end
Vocabulary ==
    { Word("hi", 2, FALSE), Word("ok.", 3, TRUE), Word("tomorrow!", 9, TRUE) }

\* whitespace runs between two words: one blank, or a blank line
GapChoices == {1, 2}

TextsOfLen(n) ==
    { t \in [1..n -> { Placed(wd, g) : wd \in Vocabulary, g \in {0} \cup GapChoices }] :
        \A i \in 1..n : (t[i].gap = 0) <=> (i = n) }

SmallTexts == UNION { TextsOfLen(n) : n \in 0..MaxWords }

\* the characters of text[lo..hi], whitespace included, summed by halves
RECURSIVE SumLen(_, _, _)
SumLen(text, lo, hi) ==
    IF lo > hi THEN 0
    ELSE IF lo = hi THEN text[lo].len + text[lo].gap
    ELSE LET mid == (lo + hi) \div 2
         IN  SumLen(text, lo, mid) + SumLen(text, mid + 1, hi)

\* len(text)
TextLen(text) == SumLen(text, 1, Len(text))

\* the text with the whitespace after its last word replaced by g blanks
WithGap(text, g) ==
    IF text = << >> THEN text
    ELSE [text EXCEPT ![Len(text)] = [@ EXCEPT !.gap = g]]

\* sep.join(texts) for a separator of g whitespace characters
RECURSIVE JoinTexts(_, _)
JoinTexts(texts, g) ==
    IF texts = << >> THEN << >>
    ELSE IF Len(texts) = 1 THEN texts[1]
    ELSE WithGap(texts[1], g) \o JoinTexts(Tail(texts), g)

\* the elements of a finite set of integers in ascending order
RECURSIVE Ascending(_)
Ascending(S) ==
    IF S = {} THEN << >>
    ELSE LET m == CHOOSE x \in S : \A y \in S : x <= y
         IN  << m >> \o Ascending(S \ {m})

\* re.split(r'(?<=[.!?])\s+', text): cut at every whitespace run that
\* follows a word ending in . ! or ?; the run itself is dropped
SplitSentences(text) ==
    LET n == Len(text)
        cuts == { i \in 1..n : text[i].stop /\ text[i].gap > 0 }
        firsts == Ascending({1} \cup { c + 1 : c \in cuts })
        last(k) == IF k = Len(firsts) THEN n ELSE firsts[k + 1] - 1
    IN  [k \in 1..Len(firsts) |-> WithGap(SubSeq(text, firsts[k], last(k)), 0)]

----------------------------------------------------------------------------
(* app/utils/token_management.py *)

CHARS_PER_TOKEN == 4

MAX_TOTAL_TOKENS == 1048576
MAX_TRANSCRIPT_TOKENS == 800000
MAX_HISTORY_TOKENS == 150000
MAX_QUESTION_TOKENS == 2000
RESERVE_TOKENS == 65536

\* count_tokens, by the len(text) // 4 heuristic
count_tokens(text) == TextLen(text) \div CHARS_PER_TOKEN

\* the import of token_management: `import tiktoken` at the top of the
\* module, then tiktoken.get_encoding inside try / except ImportError
import_token_management(pkg) ==
    IF ~pkg.installed THEN "failed"
    ELSE IF pkg.encoding = "ok" THEN "tiktoken"
    ELSE IF pkg.encoding = "ImportError" THEN "fallback"
    ELSE "failed"

\* what count_tokens_fallback does with its argument: len(text) // 4, and
\* the TypeError of len(None)
count_tokens_fallback(is_none, length) ==
    IF is_none THEN [raised |-> "TypeError", value |-> 0]
    ELSE [raised |-> "", value |-> length \div CHARS_PER_TOKEN]

\* their own token counts stays within max; stop at the first that does not
RECURSIVE KeepSentences(_, _, _, _)
KeepSentences(sentences, i, current_tokens, max) ==
    IF i > Len(sentences) THEN << >>
    ELSE LET sentence_tokens == count_tokens(sentences[i]) IN
         IF current_tokens + sentence_tokens <= max
         THEN << sentences[i] >> \o
              KeepSentences(sentences, i + 1, current_tokens + sentence_tokens, max)
         ELSE << >>

\* a truncation that only leaves transcripts strictly below the budget alone
truncate_transcript_Strict(text, max) ==
    IF text = << >> THEN << >>
    ELSE IF count_tokens(text) < max THEN text
    ELSE JoinTexts(KeepSentences(SplitSentences(text), 1, 0, max), 1)

\* truncate_transcript
truncate_transcript(text, max) ==
    IF text = << >> THEN << >>
    ELSE IF count_tokens(text) <= max THEN text
    ELSE JoinTexts(KeepSentences(SplitSentences(text), 1, 0, max), 1)

\* words separated by single blanks
Spaced(words) ==
    [i \in 1..Len(words) |-> Placed(words[i], IF i = Len(words) THEN 0 ELSE 1)]

\* a text of n characters without whitespace
Blob(name, n) == IF n = 0 THEN << >> ELSE << Placed(Word(name, n, FALSE), 0) >>

Min(a, b) == IF a <= b THEN a ELSE b

\* the content of summary_msg
SUMMARY_CONTENT ==
    Spaced(<< Word("Previous", 8, FALSE), Word("conversation", 12, FALSE),
              Word("history", 7, FALSE), Word("was", 3, FALSE), Word("too", 3, FALSE),
              Word("long", 4, FALSE), Word("and", 3, FALSE), Word("has", 3, FALSE),
              Word("been", 4, FALSE), Word("summarized.", 11, TRUE),
              Word("This", 4, FALSE), Word("is", 2, FALSE), Word("a", 1, FALSE),
              Word("new", 3, FALSE), Word("conversation", 12, FALSE),
              Word("about", 5, FALSE), Word("the", 3, FALSE), Word("same", 4, FALSE),
              Word("video.", 6, TRUE) >>)

summary_msg == [role |-> "system", content |-> SUMMARY_CONTENT]

\* sum(count_tokens(msg["content"]) for msg in msgs)
RECURSIVE HistoryTokens(_)
HistoryTokens(msgs) ==
    IF msgs = << >> THEN 0
    ELSE count_tokens(Head(msgs).content) + HistoryTokens(Tail(msgs))

\* a loop that passes over a message that does not fit and goes on to the
\* older ones
RECURSIVE KeepNewest_SkipsOverflow(_, _, _, _)
KeepNewest_SkipsOverflow(msgs, i, used_tokens, available_tokens) ==
    IF i < 1 THEN << >>
    ELSE LET msg_tokens == count_tokens(msgs[i].content) IN
         IF used_tokens + msg_tokens <= available_tokens
         THEN KeepNewest_SkipsOverflow(msgs, i - 1, used_tokens + msg_tokens,
                                       available_tokens) \o << msgs[i] >>
         ELSE KeepNewest_SkipsOverflow(msgs, i - 1, used_tokens, available_tokens)

\* the loop over reversed(history): insert at the front while the message
\* fits, stop at the first that does not
RECURSIVE KeepNewest(_, _, _, _)
KeepNewest(msgs, i, used_tokens, available_tokens) ==
    IF i < 1 THEN << >>
    ELSE LET msg_tokens == count_tokens(msgs[i].content) IN
         IF used_tokens + msg_tokens <= available_tokens
         THEN KeepNewest(msgs, i - 1, used_tokens + msg_tokens, available_tokens)
              \o << msgs[i] >>
         ELSE << >>

\* a manage_history_tokens that hands back the newest turn when none fits
manage_history_tokens_KeepsNewest(msgs, current_question, max_history_tokens) ==
    IF msgs = << >> THEN << << >>, max_history_tokens >>
    ELSE
      LET question_tokens == Min(count_tokens(current_question), MAX_QUESTION_TOKENS)
          available_tokens == max_history_tokens - question_tokens
          total_history_tokens == HistoryTokens(msgs)
          managed_history == KeepNewest(msgs, Len(msgs), 0, available_tokens)
      IN  IF total_history_tokens <= available_tokens
          THEN << msgs, available_tokens - total_history_tokens >>
          ELSE IF managed_history = << >>
               THEN << << msgs[Len(msgs)] >>, available_tokens >>
               ELSE << managed_history,
                       available_tokens - HistoryTokens(managed_history) >>

\* returns << managed history, remaining tokens >>
manage_history_tokens(msgs, current_question, max_history_tokens) ==
    IF msgs = << >> THEN << << >>, max_history_tokens >>
    ELSE
      LET question_tokens == Min(count_tokens(current_question), MAX_QUESTION_TOKENS)
          available_tokens == max_history_tokens - question_tokens
          total_history_tokens == HistoryTokens(msgs)
          managed_history == KeepNewest(msgs, Len(msgs), 0, available_tokens)
      IN  IF total_history_tokens <= available_tokens
          THEN << msgs, available_tokens - total_history_tokens >>
          ELSE IF managed_history = << >>
               THEN << << summary_msg >>,
                       available_tokens - count_tokens(summary_msg.content) >>
               ELSE << managed_history,
                       available_tokens - HistoryTokens(managed_history) >>

\* prepare_for_model: the history managed against the question under
\* MAX_HISTORY_TOKENS, the transcript truncated to MAX_TRANSCRIPT_TOKENS;
\* the question itself is passed on as it came.
\* returns << managed transcript, managed history >>
prepare_for_model(text, current_question, msgs) ==
    << truncate_transcript(text, MAX_TRANSCRIPT_TOKENS),
       manage_history_tokens(msgs, current_question, MAX_HISTORY_TOKENS)[1] >>

----------------------------------------------------------------------------
(* archive/rag.py *)

DEFAULT_CHUNK_SIZE == 500
DEFAULT_CHUNK_OVERLAP == 100
DEFAULT_TOP_K_CHUNKS == 5

\* transcript.split(): the words, without the whitespace around them
SplitWords(text) ==
    [i \in 1..Len(text) |-> Word(text[i].w, text[i].len, text[i].stop)]

\* the place a slice bound i stands for in a list of n elements: a
\* negative bound counts from the end, and every bound is clipped
SliceBound(i, n) ==
    IF i < 0 THEN (IF i + n < 0 THEN 0 ELSE i + n) ELSE Min(i, n)

\* " ".join(words[from:to]), from and to counted as Python does, from 0
ChunkAt(words, from, size) ==
    Spaced(SubSeq(words, SliceBound(from, Len(words)) + 1,
                  SliceBound(Min(from + size, Len(words)), Len(words))))

\* the step of a loop that forgets the overlap
NextStart_NoOverlap(from, size, overlap) == from + size

\* a step guarded to advance by one word at least
NextStart_AtLeastOne(from, size, overlap) ==
    IF size - overlap < 1 THEN from + 1 ELSE from + size - overlap

\* start = start + chunk_size - chunk_overlap
NextStart(from, size, overlap) == from + size - overlap

\* the while loop of chunk_transcript, run to its end
RECURSIVE ChunkLoop(_, _, _, _)
ChunkLoop(words, from, size, overlap) ==
    IF from < Len(words)
    THEN << ChunkAt(words, from, size) >> \o
         ChunkLoop(words, NextStart(from, size, overlap), size, overlap)
    ELSE << >>

\* chunk_transcript for chunk_overlap < chunk_size
chunk_transcript(text, size, overlap) ==
    IF text = << >> THEN << >>
    ELSE IF Len(SplitWords(text)) <= size THEN << text >>
    ELSE ChunkLoop(SplitWords(text), 0, size, overlap)

None == "None"

\* initialize_embedding_model with the global at model: whether it returns
\* True, the global afterwards and the number of SentenceTransformer(...)
\* calls; loadable tells whether that call succeeds now
initialize_embedding_model(model, loadable, attempts) ==
    IF model = None
    THEN IF loadable
         THEN [ok |-> TRUE, model |-> "SentenceTransformer" \o ToString(attempts + 1),
               attempts |-> attempts + 1]
         ELSE [ok |-> FALSE, model |-> None, attempts |-> attempts + 1]
    ELSE [ok |-> TRUE, model |-> model, attempts |-> attempts]

\* an embedding model that cannot be initialized and gives no similarities
NoEmbedder ==
    [init_ok |-> FALSE, encode_ok |-> FALSE, search_ok |-> FALSE,
     similarities |-> << >>]

\* an array of embeddings, kept as the similarity of each row to the query;
\* NoEmbeddings stands for None
NoEmbeddings == [none |-> TRUE, rows |-> << >>]

Embeddings(rows) == [none |-> FALSE, rows |-> rows]

\* create_embeddings: None without chunks, when the model cannot be
\* initialized or when encode raises; otherwise one vector per chunk, of
\* which the model keeps the similarity to the query
create_embeddings(cs, emb) ==
    IF cs = << >> THEN NoEmbeddings
    ELSE IF ~emb.init_ok THEN NoEmbeddings
    ELSE IF ~emb.encode_ok THEN NoEmbeddings
    ELSE Embeddings(SubSeq(emb.similarities, 1, Len(cs)))

\* the query of prepare_rag_context: the contents of the last two turns,
\* then the question, joined by blanks
search_query(current_question, msgs) ==
    IF msgs = << >> THEN current_question
    ELSE LET last_turns == IF Len(msgs) > 2
                           THEN SubSeq(msgs, Len(msgs) - 1, Len(msgs)) ELSE msgs
         IN  JoinTexts([i \in 1..Len(last_turns) |-> last_turns[i].content]
                          \o << current_question >>, 1)

\* the similarity 0/0 of a vector of norm zero: not a number.  np.argsort
\* orders it after every number, which its place above the hundredths of
\* the cosines -100..100 gives it here
NaN == 1000

\* a >= b on floats: false as soon as one of them is not a number
FloatGe(a, b) == a # NaN /\ b # NaN /\ a >= b

\* np.argsort(similarities): the orders of the indices that are ascending
\* in similarity; equal similarities may come in either order
ArgSorts(similarities) ==
    LET n == Len(similarities) IN
    { p \in [1..n -> 1..n] :
        /\ \A i, j \in 1..n : i # j => p[i] # p[j]
        /\ \A i \in 1..(n - 1) : similarities[p[i]] <= similarities[p[i + 1]] }

Reverse(seq) == [i \in 1..Len(seq) |-> seq[Len(seq) + 1 - i]]

\* order[-k:] as Python slices: the last k elements for k > 0 (all of them
\* when there are fewer), the whole of it for k = 0, and order[|k|:] for k < 0
LastK(order, k) ==
    LET n == Len(order)
        first == IF k > 0 THEN (IF n > k THEN n - k ELSE 0) + 1 ELSE 1 - k
    IN  SubSeq(order, first, n)

\* a selection that forgets to turn the ascending order round
TopIndices_Ascending(order, k) == LastK(order, k)

\* np.argsort(similarities)[-top_k:][::-1] for the argsort result order
TopIndices(order, k) == Reverse(LastK(order, k))

\* search_relevant_chunks: << chunk, score >> pairs, best first; [] when
\* there is nothing to search, the model is missing, the encoding of the
\* question raises, or chunks[i] raises for a row without a chunk
search_relevant_chunks(cs, embeddings, emb, k, order) ==
    IF cs = << >> \/ embeddings.none THEN << >>
    ELSE IF ~emb.init_ok THEN << >>
    ELSE IF ~emb.search_ok THEN << >>
    ELSE LET top_indices == TopIndices(order, k) IN
         IF \E i \in 1..Len(top_indices) : top_indices[i] > Len(cs)
         THEN << >>
         ELSE [i \in 1..Len(top_indices) |->
                 [chunk |-> cs[top_indices[i]],
                  score |-> embeddings.rows[top_indices[i]]]]

\* f"[Relevance: {score:.2f}] {chunk}", the score in hundredths: "0.35"
\* has four characters, "-0.35" five, "nan" three
RelevancePrefixed(chunk, score) ==
    << Placed(Word("[Relevance:", 11, FALSE), 1),
       Placed(Word(ToString(score) \o "/100]",
                   IF score = NaN THEN 4 ELSE IF score < 0 THEN 6 ELSE 5, FALSE), 1) >>
    \o chunk

\* the for loop over relevant_chunks: add chunks while the sum of their
\* own token counts stays within the ceiling, stop at the first that does not
RECURSIVE ContextParts(_, _, _)
ContextParts(relevant_chunks, i, total_tokens) ==
    IF i > Len(relevant_chunks) THEN << >>
    ELSE LET chunk_tokens == count_tokens(relevant_chunks[i].chunk) IN
         IF total_tokens + chunk_tokens <= MAX_TRANSCRIPT_TOKENS
         THEN << RelevancePrefixed(relevant_chunks[i].chunk, relevant_chunks[i].score) >>
              \o ContextParts(relevant_chunks, i + 1, total_tokens + chunk_tokens)
         ELSE << >>

\* prepare_rag_context, for the order np.argsort gives the similarities
prepare_rag_context(text, current_question, msgs, emb, order) ==
    IF count_tokens(text) <= MAX_TRANSCRIPT_TOKENS THEN text
    ELSE
      LET cs == chunk_transcript(text, DEFAULT_CHUNK_SIZE, DEFAULT_CHUNK_OVERLAP)
          embeddings == create_embeddings(cs, emb)
          relevant_chunks ==
              search_relevant_chunks(cs, embeddings, emb,
                                     DEFAULT_TOP_K_CHUNKS, order)
      IN  IF embeddings.none
          THEN truncate_transcript(text, MAX_TRANSCRIPT_TOKENS)
          ELSE IF relevant_chunks = << >>
          THEN truncate_transcript(text, MAX_TRANSCRIPT_TOKENS)
          ELSE JoinTexts(ContextParts(relevant_chunks, 1, 0), 2)

\* should_use_rag
should_use_rag(text) ==
    IF text = << >> THEN FALSE ELSE count_tokens(text) > MAX_TRANSCRIPT_TOKENS

----------------------------------------------------------------------------
(* Python values and the JSON documents json.dumps / json.loads exchange.  *)
(* A value is a record [t: its type, s: text, n: number, items: elements   *)
(* of a list/tuple/set, pairs: the (key, value) pairs of a dict in         *)
(* insertion order].  A document has the same shape with the JSON types.   *)

Value(t, s, n, items, pairs) ==
    [t |-> t, s |-> s, n |-> n, items |-> items, pairs |-> pairs]

Pair(k, v) == [k |-> k, v |-> v]

PyNone == Value("NoneType", "", 0, << >>, << >>)
PyStr(s) == Value("str", s, 0, << >>, << >>)
PyInt(n) == Value("int", "", n, << >>, << >>)
PyBool(b) == Value("bool", "", IF b THEN 1 ELSE 0, << >>, << >>)
PyList(items) == Value("list", "", 0, items, << >>)
PyTuple(items) == Value("tuple", "", 0, items, << >>)
PySet(items) == Value("set", "", 0, items, << >>)
PyDict(pairs) == Value("dict", "", 0, << >>, pairs)

\* datetime.now(timezone.utc).isoformat() at an instant: a str; two such
\* strings compare as their instants do
isoformat(instant) == Value("str", "isoformat", instant, << >>, << >>)

\* "1970-01-01T00:00:00"
EPOCH == isoformat(0)

\* a == b of two dict keys or scalars: True == 1 in Python
Numeric(v) == v.t \in {"int", "bool"}

SameKey(a, b) == IF Numeric(a) /\ Numeric(b) THEN a.n = b.n ELSE a = b

\* key in d
HasItem(d, key) == \E i \in DOMAIN d.pairs : SameKey(d.pairs[i].k, key)

\* d.get(key, default)
GetItem(d, key, default) ==
    IF HasItem(d, key)
    THEN d.pairs[CHOOSE i \in DOMAIN d.pairs : SameKey(d.pairs[i].k, key)].v
    ELSE default

\* d[key] = v: in place for a key d has, at the end for a new key
SetItem(d, key, v) ==
    IF HasItem(d, key)
    THEN [d EXCEPT !.pairs = [i \in DOMAIN d.pairs |->
              IF SameKey(d.pairs[i].k, key) THEN Pair(d.pairs[i].k, v)
              ELSE d.pairs[i]]]
    ELSE [d EXCEPT !.pairs = Append(d.pairs, Pair(key, v))]

\* a == b of two Python values
RECURSIVE PyEqual(_, _)
PyEqual(a, b) ==
    IF Numeric(a) /\ Numeric(b) THEN a.n = b.n
    ELSE IF a.t # b.t THEN FALSE
    ELSE IF a.t \in {"list", "tuple"}
    THEN /\ Len(a.items) = Len(b.items)
         /\ \A i \in DOMAIN a.items : PyEqual(a.items[i], b.items[i])
    ELSE IF a.t = "dict"
    THEN /\ Len(a.pairs) = Len(b.pairs)
         /\ \A i \in DOMAIN a.pairs : \E j \in DOMAIN b.pairs :
                /\ SameKey(a.pairs[i].k, b.pairs[j].k)
                /\ PyEqual(a.pairs[i].v, b.pairs[j].v)
    ELSE a = b

\* whether json.dumps(v) returns (it raises TypeError otherwise)
RECURSIVE Serializable(_)
Serializable(v) ==
    IF v.t \in {"NoneType", "bool", "int", "str"} THEN TRUE
    ELSE IF v.t \in {"list", "tuple"}
    THEN \A i \in DOMAIN v.items : Serializable(v.items[i])
    ELSE IF v.t = "dict"
    THEN \A i \in DOMAIN v.pairs :
            /\ v.pairs[i].k.t \in {"NoneType", "bool", "int", "str"}
            /\ Serializable(v.pairs[i].v)
    ELSE FALSE

\* the member name json.dumps writes for a dict key
key_text(k) ==
    IF k.t = "str" THEN k.s
    ELSE IF k.t = "int" THEN ToString(k.n)
    ELSE IF k.t = "bool" THEN (IF k.n = 1 THEN "true" ELSE "false")
    ELSE "null"

\* json.dumps(v): tuples and lists both become arrays, every dict key
\* becomes a string
RECURSIVE json_dumps(_)
json_dumps(v) ==
    IF v.t = "NoneType" THEN Value("null", "", 0, << >>, << >>)
    ELSE IF v.t = "bool"
    THEN Value(IF v.n = 1 THEN "true" ELSE "false", "", 0, << >>, << >>)
    ELSE IF v.t = "int" THEN Value("number", "", v.n, << >>, << >>)
    ELSE IF v.t = "str" THEN Value("string", v.s, v.n, << >>, << >>)
    ELSE IF v.t \in {"list", "tuple"}
    THEN Value("array", "", 0,
               [i \in DOMAIN v.items |-> json_dumps(v.items[i])], << >>)
    ELSE Value("object", "", 0, << >>,
               [i \in DOMAIN v.pairs |->
                   Pair(key_text(v.pairs[i].k), json_dumps(v.pairs[i].v))])

\* a string stored as it is, which json.loads cannot parse
RawText(s, n) == Value("raw", s, n, << >>, << >>)

Parses(doc) == doc.t # "raw"

\* json.loads(doc): arrays become lists; of two members of one name the
\* later one wins
RECURSIVE json_loads(_)
RECURSIVE LoadMembers(_, _)
json_loads(doc) ==
    IF doc.t = "null" THEN PyNone
    ELSE IF doc.t = "true" THEN PyBool(TRUE)
    ELSE IF doc.t = "false" THEN PyBool(FALSE)
    ELSE IF doc.t = "number" THEN PyInt(doc.n)
    ELSE IF doc.t = "string" THEN Value("str", doc.s, doc.n, << >>, << >>)
    ELSE IF doc.t = "array"
    THEN PyList([i \in DOMAIN doc.items |-> json_loads(doc.items[i])])
    ELSE LoadMembers(doc.pairs, Len(doc.pairs))

LoadMembers(members, n) ==
    IF n = 0 THEN PyDict(<< >>)
    ELSE SetItem(LoadMembers(members, n - 1),
                 PyStr(members[n].k), json_loads(members[n].v))

----------------------------------------------------------------------------
(* app/core/cache.py *)

\* float(os.getenv("MAX_MEMORY_PERCENT", 90.0))
MAX_MEMORY_PERCENT == 90

CACHED_AT == PyStr("_cached_at")
LAST_ACCESSED == PyStr("_last_accessed")
ACCESS_COUNT == PyStr("_access_count")

\* the store as a function from the keys it holds to
\* [data: the stored document, expire_at: instant of expiry, 0 for none]
Entry(data, expire_at) == [data |-> data, expire_at |-> expire_at]

\* a pipeline that is never executed
Stored_NotExecuted(db, key, data, expire_at) == db

\* SET key data, then EXPIRE key ttl when a ttl was given (a plain SET
\* drops the expiry the key had)
Stored(db, key, data, expire_at) ==
    [k \in DOMAIN db \cup {key} |->
        IF k = key THEN Entry(data, expire_at) ELSE db[k]]

\* DEL keys
Without(db, keys) == [k \in DOMAIN db \ keys |-> db[k]]

\* a set_cache that writes the metadata without the payload
Stamped_DropsPayload(value, instant) ==
    IF value.t = "dict"
    THEN PyDict(<< Pair(CACHED_AT, isoformat(instant)),
                   Pair(LAST_ACCESSED, isoformat(instant)),
                   Pair(ACCESS_COUNT, PyInt(0)) >>)
    ELSE value

\* the metadata set_cache adds to a dict before it writes it
Stamped(value, instant) ==
    IF value.t = "dict"
    THEN SetItem(SetItem(SetItem(value,
             CACHED_AT, isoformat(instant)),
             LAST_ACCESSED, isoformat(instant)),
             ACCESS_COUNT, GetItem(value, ACCESS_COUNT, PyInt(0)))
    ELSE value

\* the statistics get_cache updates on a hit
Touched(value, instant) ==
    SetItem(SetItem(value,
        ACCESS_COUNT, PyInt(GetItem(value, ACCESS_COUNT, PyInt(0)).n + 1)),
        LAST_ACCESSED, isoformat(instant))

\* (used_memory / max_memory) * 100 > MAX_MEMORY_PERCENT
memory_percent_exceeds(used, max) ==
    used * 100 > MAX_MEMORY_PERCENT * max

\* a check that cleans up when either ceiling is passed
cleanup_due_EitherTrigger(db, max_memory, used, max_keys) ==
    \/ Cardinality(DOMAIN db) > max_keys
    \/ max_memory # 0 /\ memory_percent_exceeds(used, max_memory)

\* check_memory_usage: whether it calls apply_lru_cleanup
cleanup_due(db, max_memory, used, max_keys) ==
    IF max_memory = 0
    THEN Cardinality(DOMAIN db) > max_keys
    ELSE memory_percent_exceeds(used, max_memory)

\* (key, last_accessed, access_count) of every key
key_metadata(db) ==
    { IF Parses(db[k].data) /\ json_loads(db[k].data).t = "dict"
      THEN LET data == json_loads(db[k].data)
           IN  [key |-> k,
                last_accessed |-> GetItem(data, LAST_ACCESSED,
                                          GetItem(data, CACHED_AT, EPOCH)),
                access_count |-> GetItem(data, ACCESS_COUNT, PyInt(0))]
      ELSE [key |-> k, last_accessed |-> EPOCH, access_count |-> PyInt(0)]
      : k \in DOMAIN db }

\* (a.last_accessed, a.access_count) < (b.last_accessed, b.access_count)
Before(a, b) ==
    \/ a.last_accessed.n < b.last_accessed.n
    \/ /\ a.last_accessed.n = b.last_accessed.n
       /\ a.access_count.n < b.access_count.n

\* key_metadata.sort(...): the sort is stable and KEYS returns the keys
\* in no particular order, so equal items can come out in any order
RECURSIVE SortedOrders(_)
SortedOrders(S) ==
    IF S = {} THEN { << >> }
    ELSE UNION { { << m >> \o rest : rest \in SortedOrders(S \ {m}) } :
                 m \in { x \in S : \A y \in S : ~Before(y, x) } }

\* a cleanup that removes a tenth of the keys
remove_count_Tenth(n) ==
    IF n \div 10 = 0 /\ n > 0 THEN 1 ELSE n \div 10

\* a count without the minimum of one key
remove_count_NoMinimum(n) == (n * 2) \div 10

\* remove_count: int(len(key_metadata) * 0.2), and if that is 0 and there
\* are keys, 1
remove_count(n) ==
    IF (n * 2) \div 10 = 0 /\ n > 0 THEN 1 ELSE (n * 2) \div 10

\* apply_lru_cleanup: the keys it deletes, given the sorted metadata
apply_lru_cleanup(order) ==
    { order[i].key : i \in 1..remove_count(Len(order)) }

\* the keys callers use
CacheKeys == { "video_info:a", "transcript:a" }

\* ---- the tasks of the event loop that are inside set_cache
Idle ==
    [op |-> "idle", key |-> "", value |-> PyNone, ttl |-> 0, pc |-> "",
     by |-> ""]

AllIdle == \A t \in DOMAIN tasks : tasks[t] = Idle

FreeSlots == { t \in DOMAIN tasks : tasks[t] = Idle }

FirstFree == CHOOSE t \in FreeSlots : \A u \in FreeSlots : t <= u

\* keys a caller's set_cache is working on
CallerSetKeys == { tasks[t].key : t \in { u \in DOMAIN tasks : tasks[u].by = "caller" } }

\* ---- what the callers have seen: the last two calls that returned
NoOp == [op |-> "none", key |-> "", arg |-> PyNone, result |-> PyNone, at |-> 0]

Returned(op, key, arg, result) ==
    /\ last_op' = [op |-> op, key |-> key, arg |-> arg, result |-> result,
                   at |-> now]
    /\ prev_op' = last_op

NoCleanup == [ran |-> FALSE, before |-> << >>, removed |-> {}]

\* check_memory_usage on the store db: the stores it can leave, each with
\* the record of the cleanup that ran last; the exception of a server that
\* does not answer is logged and nothing is done
check_memory_usage(db, cleanup) ==
    IF reachable /\ cleanup_due(db, maxmemory, used_memory, max_cache_keys)
    THEN { [db |-> Without(db, apply_lru_cleanup(order)),
            cleanup |-> [ran |-> TRUE, before |-> db,
                         removed |-> apply_lru_cleanup(order)]] :
           order \in SortedOrders(key_metadata(db)) }
    ELSE { [db |-> db, cleanup |-> cleanup] }

\* ensure_redis_connection: init_redis on the first call, which connects
\* (or fails to) and checks the memory once
ensure_redis_connection ==
    IF redis_client = None /\ ~init_attempted
    THEN IF reachable
         THEN { [client |-> "client", db |-> o.db, cleanup |-> o.cleanup] :
                o \in check_memory_usage(redis_db, last_cleanup) }
         ELSE { [client |-> None, db |-> redis_db, cleanup |-> last_cleanup] }
    ELSE { [client |-> redis_client, db |-> redis_db,
            cleanup |-> last_cleanup] }

envVars == <<reachable, maxmemory, used_memory, max_cache_keys>>

\* a caller calls set_cache(key, value, ttl); sequential callers wait for
\* every task to finish first
SetCacheBegin(sequential, key, value, ttl) ==
    /\ sequential => AllIdle
    /\ FreeSlots # {}
    /\ tasks' = [tasks EXCEPT ![FirstFree] =
                    [op |-> "set", key |-> key, value |-> value, ttl |-> ttl,
                     pc |-> "check", by |-> "caller"]]
    /\ deleted' = deleted \ {key}
    /\ UNCHANGED <<redis_client, init_attempted, redis_db, now, last_op,
                   prev_op, last_cleanup, expiring, last_set,
                   envVars>>

\* set_cache up to pipe.execute(): the connection, then check_memory_usage
SetCacheCheck(t) ==
    /\ tasks[t].pc = "check"
    /\ init_attempted' = (init_attempted \/ redis_client = None)
    /\ \E conn \in ensure_redis_connection :
        /\ redis_client' = conn.client
        /\ IF conn.client = None
           THEN /\ tasks' = [tasks EXCEPT ![t] = Idle]
                /\ redis_db' = conn.db
                /\ last_cleanup' = conn.cleanup
                /\ IF tasks[t].by = "caller"
                   THEN Returned("set", tasks[t].key, tasks[t].value,
                                 PyBool(FALSE))
                   ELSE UNCHANGED <<last_op, prev_op>>
           ELSE /\ \E out \in check_memory_usage(conn.db, conn.cleanup) :
                    /\ redis_db' = out.db
                    /\ last_cleanup' = out.cleanup
                /\ tasks' = [tasks EXCEPT ![t].pc = "write"]
                /\ UNCHANGED <<last_op, prev_op>>
    /\ UNCHANGED <<now, deleted, inserted, expiring, last_set,
                   envVars>>

\* the rest of set_cache: the metadata, json.dumps and the pipeline; the
\* exception of json.dumps or of a server that does not answer is logged
\* and False returned
SetCacheWrite(t) ==
    /\ tasks[t].pc = "write"
    /\ LET value == Stamped(tasks[t].value, now)
           written == Serializable(value) /\ reachable
       IN  /\ redis_db' =
                IF written
                THEN Stored(redis_db, tasks[t].key, json_dumps(value),
                            IF tasks[t].ttl # 0 THEN now + tasks[t].ttl ELSE 0)
                ELSE redis_db
           /\ IF tasks[t].by = "caller"
              THEN Returned("set", tasks[t].key, tasks[t].value, PyBool(written))
              ELSE UNCHANGED <<last_op, prev_op>>
    /\ expiring' =
            IF /\ tasks[t].by = "caller" /\ reachable
               /\ Serializable(Stamped(tasks[t].value, now))
            THEN { e \in expiring : e.key # tasks[t].key } \cup
                 ( IF tasks[t].ttl # 0
                   THEN { [key |-> tasks[t].key, expire_at |-> now + tasks[t].ttl] }
                   ELSE {} )
            ELSE expiring
    /\ last_set' =
            IF /\ tasks[t].by = "caller" /\ reachable
               /\ Serializable(Stamped(tasks[t].value, now))
            THEN { e \in last_set : e.key # tasks[t].key } \cup
                 { [key |-> tasks[t].key, value |-> tasks[t].value] }
            ELSE last_set
    /\ tasks' = [tasks EXCEPT ![t] = Idle]
    /\ UNCHANGED <<redis_client, init_attempted, now, last_cleanup, deleted,
                   inserted, envVars>>

\* a get_cache that awaits the write of the statistics before it returns
GetCache_AwaitsWrite(sequential, key, update_access_stats) ==
    /\ sequential => AllIdle
    /\ init_attempted' = (init_attempted \/ redis_client = None)
    /\ \E conn \in ensure_redis_connection :
        /\ redis_client' = conn.client
        /\ last_cleanup' = conn.cleanup
        /\ IF conn.client = None \/ ~reachable \/ key \notin DOMAIN conn.db
           THEN /\ Returned("get", key, PyNone, PyNone)
                /\ redis_db' = conn.db
           ELSE LET value == json_loads(conn.db[key].data)
                IN  IF update_access_stats /\ value.t = "dict"
                    THEN /\ GetItem(value, ACCESS_COUNT, PyInt(0)).n < MaxAccessCount
                         /\ redis_db' = Stored(conn.db, key,
                                json_dumps(Stamped(Touched(value, now), now)), 0)
                         /\ Returned("get", key, PyNone, Touched(value, now))
                    ELSE /\ Returned("get", key, PyNone, value)
                         /\ redis_db' = conn.db
    /\ UNCHANGED <<now, tasks, deleted, inserted, expiring, last_set,
                   envVars>>

\* get_cache(key, update_access_stats): on a hit with a dict it creates the
\* task set_cache(key, value, None) and returns without waiting for it
GetCache(sequential, key, update_access_stats) ==
    /\ sequential => AllIdle
    /\ init_attempted' = (init_attempted \/ redis_client = None)
    /\ \E conn \in ensure_redis_connection :
        /\ redis_client' = conn.client
        /\ redis_db' = conn.db
        /\ last_cleanup' = conn.cleanup
        /\ IF conn.client = None \/ ~reachable \/ key \notin DOMAIN conn.db
           THEN /\ Returned("get", key, PyNone, PyNone)
                /\ UNCHANGED tasks
           ELSE LET value == json_loads(conn.db[key].data)
                IN  IF update_access_stats /\ value.t = "dict"
                    THEN /\ FreeSlots # {}
                         /\ GetItem(value, ACCESS_COUNT, PyInt(0)).n < MaxAccessCount
                         /\ tasks' = [tasks EXCEPT ![FirstFree] =
                                [op |-> "set", key |-> key,
                                 value |-> Touched(value, now), ttl |-> 0,
                                 pc |-> "check", by |-> "deferred"]]
                         /\ Returned("get", key, PyNone, Touched(value, now))
                    ELSE /\ Returned("get", key, PyNone, value)
                         /\ UNCHANGED tasks
    /\ UNCHANGED <<now, deleted, inserted, expiring, last_set,
                   envVars>>

\* delete_cache(key)
DeleteCache(sequential, key) ==
    /\ sequential => AllIdle
    /\ init_attempted' = (init_attempted \/ redis_client = None)
    /\ \E conn \in ensure_redis_connection :
        /\ redis_client' = conn.client
        /\ last_cleanup' = conn.cleanup
        /\ IF conn.client = None \/ ~reachable
           THEN /\ redis_db' = conn.db
                /\ Returned("delete", key, PyNone, PyBool(FALSE))
                /\ UNCHANGED deleted
           ELSE /\ redis_db' = Without(conn.db, {key})
                /\ Returned("delete", key, PyNone, PyBool(TRUE))
                /\ deleted' = deleted \cup ({key} \ CallerSetKeys)
    /\ UNCHANGED <<now, tasks, inserted, expiring, last_set,
                   envVars>>

\* clear_cache()
ClearCache(sequential) ==
    /\ sequential => AllIdle
    /\ init_attempted' = (init_attempted \/ redis_client = None)
    /\ \E conn \in ensure_redis_connection :
        /\ redis_client' = conn.client
        /\ last_cleanup' = conn.cleanup
        /\ IF conn.client = None \/ ~reachable
           THEN /\ redis_db' = conn.db
                /\ Returned("clear", "", PyNone, PyBool(FALSE))
                /\ UNCHANGED deleted
           ELSE /\ redis_db' = Without(conn.db, DOMAIN conn.db)
                /\ Returned("clear", "", PyNone, PyBool(TRUE))
                /\ deleted' = deleted \cup (CacheKeys \ CallerSetKeys)
    /\ UNCHANGED <<now, tasks, inserted, expiring, last_set,
                   envVars>>

\* time passes; the store drops the keys whose expiry has come
Tick ==
    /\ now < MaxClock
    /\ now' = now + 1
    /\ redis_db' = Without(redis_db,
            { k \in DOMAIN redis_db :
                redis_db[k].expire_at # 0 /\ redis_db[k].expire_at <= now + 1 })
    /\ UNCHANGED <<redis_client, init_attempted, tasks, last_op, prev_op,
                   last_cleanup, deleted, inserted, expiring, last_set,
                   envVars>>

\* the Redis server stops answering, or answers again
Outage ==
    /\ reachable' = ~reachable
    /\ UNCHANGED <<redis_client, init_attempted, redis_db, maxmemory,
                   used_memory, max_cache_keys, now, tasks, last_op, prev_op,
                   last_cleanup, deleted, inserted, expiring, last_set>>

\* close_redis: the client is closed and stays assigned, so that no call
\* connects again; the commands sent on it afterwards raise
close_redis ==
    /\ redis_client # None
    /\ reachable
    /\ reachable' = FALSE
    /\ UNCHANGED <<redis_client, init_attempted, redis_db, maxmemory,
                   used_memory, max_cache_keys, now, tasks, last_op, prev_op,
                   last_cleanup, deleted, inserted, expiring, last_set>>

----------------------------------------------------------------------------
(* States in which a part of the program has not run *)

\* the tokenizer package as the token counts of this model suppose it:
\* installed, its encoding not loadable with an ImportError, so that
\* count_tokens is count_tokens_fallback
TokenModuleLoaded ==
    /\ tiktoken_pkg = [installed |-> TRUE, encoding |-> "ImportError"]
    /\ token_module = "fallback"

NoCall ==
    /\ called = "none"
    /\ ret = << >>
    /\ start = 0
    /\ chunks = << >>
    /\ top_k = DEFAULT_TOP_K_CHUNKS
    /\ chunk_embeddings = NoEmbeddings
    /\ embedding_model = None
    /\ load_attempts = 0
    /\ TokenModuleLoaded

NoCache ==
    /\ redis_client = None
    /\ init_attempted = FALSE
    /\ redis_db = << >>
    /\ now = 1
    /\ tasks = [t \in 1..MaxTasks |-> Idle]
    /\ last_op = NoOp
    /\ prev_op = NoOp
    /\ last_cleanup = NoCleanup
    /\ deleted = {}
    /\ inserted = 0
    /\ expiring = {}
    /\ last_set = {}

\* a request slot no request has used
NoRequest ==
    [kind |-> "none", pc |-> "idle", question |-> "", req_history |-> << >>,
     user_api_key |-> FALSE, force_regenerate |-> FALSE, chat |-> FALSE,
     history |-> << >>, answer |-> "", llm |-> "none",
     wrote_history |-> FALSE, wrote_cache |-> FALSE, status |-> ""]

NoChat ==
    /\ video_chats = << >>
    /\ summaries = << >>
    /\ requests = [r \in 1..MaxRequests |-> NoRequest]
    /\ gemini_api_key = FALSE

NoCacheEnv ==
    /\ reachable = FALSE
    /\ maxmemory = 0
    /\ used_memory = 0
    /\ max_cache_keys = 1

FnIdle ==
    /\ NoCall
    /\ transcript = << >>
    /\ question = << >>
    /\ history = << >>
    /\ max_tokens = 0
    /\ chunk_size = 1
    /\ chunk_overlap = 0
    /\ embedder = NoEmbedder

----------------------------------------------------------------------------
(* Calls of the pure functions *)

CallTruncateTranscript ==
    /\ called = "none"
    /\ called' = "truncate_transcript"
    /\ ret' = truncate_transcript(transcript, max_tokens)
    /\ UNCHANGED <<transcript, question, history, max_tokens, chunk_size,
                   chunk_overlap, embedder, top_k, chunk_embeddings,
                   embedding_model, load_attempts, tiktoken_pkg, token_module,
                   start, chunks, cacheVars, chatVars>>

InitTruncate ==
    /\ NoCall
    /\ NoCache
    /\ NoChat
    /\ NoCacheEnv
    /\ transcript \in SmallTexts
    /\ max_tokens \in 0..MaxBudget
    /\ question = << >>
    /\ history = << >>
    /\ chunk_size = 1
    /\ chunk_overlap = 0
    /\ embedder = NoEmbedder

NextTruncate == CallTruncateTranscript

SpecTruncate == InitTruncate /\ [][NextTruncate]_vars

\* message contents of 0, 5, 10 and MAX_HISTORY_TOKENS tokens
HistoryContents ==
    { Blob("m0", 0), Blob("m20", 20), Blob("m40", 40),
      Blob("mBig", CHARS_PER_TOKEN * MAX_HISTORY_TOKENS) }

Histories ==
    UNION { [1..n -> [role : {"user", "model"}, content : HistoryContents]] :
              n \in 0..MaxHistory }

\* questions of 0 and 2 tokens, and one above MAX_QUESTION_TOKENS
Questions ==
    { Blob("q0", 0), Blob("q8", 8),
      Blob("qBig", CHARS_PER_TOKEN * (MAX_QUESTION_TOKENS + 1)) }

HistoryBudgets == {0, 1, 5, 12, 40, MAX_HISTORY_TOKENS}

CallManageHistoryTokens ==
    /\ called = "none"
    /\ called' = "manage_history_tokens"
    /\ ret' = manage_history_tokens(history, question, max_tokens)
    /\ UNCHANGED <<transcript, question, history, max_tokens, chunk_size,
                   chunk_overlap, embedder, top_k, chunk_embeddings,
                   embedding_model, load_attempts, tiktoken_pkg, token_module,
                   start, chunks, cacheVars, chatVars>>

InitHistory ==
    /\ NoCall
    /\ NoCache
    /\ NoChat
    /\ NoCacheEnv
    /\ history \in Histories
    /\ question \in Questions
    /\ max_tokens \in HistoryBudgets
    /\ transcript = << >>
    /\ chunk_size = 1
    /\ chunk_overlap = 0
    /\ embedder = NoEmbedder

NextHistory == CallManageHistoryTokens

SpecHistory == InitHistory /\ [][NextHistory]_vars

\* transcripts for prepare_for_model: none, one of exactly the ceiling, and
\* four one-word sentences of 200000 tokens each
PrepareTranscripts ==
    { << >>, Blob("t", CHARS_PER_TOKEN * MAX_TRANSCRIPT_TOKENS),
      [i \in 1..4 |-> Placed(Word("s", 800003, TRUE), IF i = 4 THEN 0 ELSE 1)] }

\* questions up to the question limit, just above it, and longer than the
\* whole input context
PrepareQuestions ==
    Questions \cup
    { Blob("q2000", CHARS_PER_TOKEN * MAX_QUESTION_TOKENS),
      Blob("qAll", CHARS_PER_TOKEN * (MAX_TOTAL_TOKENS - RESERVE_TOKENS + 1)) }

CallPrepareForModel ==
    /\ called = "none"
    /\ called' = "prepare_for_model"
    /\ ret' = prepare_for_model(transcript, question, history)
    /\ UNCHANGED <<transcript, question, history, max_tokens, chunk_size,
                   chunk_overlap, embedder, top_k, chunk_embeddings,
                   embedding_model, load_attempts, tiktoken_pkg, token_module,
                   start, chunks, cacheVars, chatVars>>

InitPrepare ==
    /\ NoCall
    /\ NoCache
    /\ NoChat
    /\ NoCacheEnv
    /\ transcript \in PrepareTranscripts
    /\ question \in PrepareQuestions
    /\ history \in { h \in Histories : \A i \in 1..Len(h) : h[i].role = "user" }
    /\ max_tokens = 0
    /\ chunk_size = 1
    /\ chunk_overlap = 0
    /\ embedder = NoEmbedder

NextPrepare == CallPrepareForModel

SpecPrepare == InitPrepare /\ [][NextPrepare]_vars

\* chunk_transcript, one loop iteration at a time
ChunkBegin ==
    /\ called = "none"
    /\ IF transcript = << >>
       THEN called' = "chunk_transcript" /\ ret' = << >>
       ELSE IF Len(SplitWords(transcript)) <= chunk_size
       THEN called' = "chunk_transcript" /\ ret' = << transcript >>
       ELSE called' = "chunk_transcript:while" /\ ret' = ret
    /\ start' = 0
    /\ chunks' = << >>
    /\ UNCHANGED <<transcript, question, history, max_tokens, chunk_size,
                   chunk_overlap, embedder, top_k, chunk_embeddings,
                   embedding_model, load_attempts, tiktoken_pkg, token_module,
                   cacheVars, chatVars>>

ChunkStep ==
    /\ called = "chunk_transcript:while"
    /\ start < Len(SplitWords(transcript))
    /\ chunks' = Append(chunks, ChunkAt(SplitWords(transcript), start, chunk_size))
    /\ start' = NextStart(start, chunk_size, chunk_overlap)
    /\ UNCHANGED <<transcript, question, history, max_tokens, chunk_size,
                   chunk_overlap, embedder, top_k, chunk_embeddings,
                   embedding_model, load_attempts, tiktoken_pkg, token_module,
                   called, ret, cacheVars, chatVars>>

ChunkReturn ==
    /\ called = "chunk_transcript:while"
    /\ ~(start < Len(SplitWords(transcript)))
    /\ called' = "chunk_transcript"
    /\ ret' = chunks
    /\ UNCHANGED <<transcript, question, history, max_tokens, chunk_size,
                   chunk_overlap, embedder, top_k, chunk_embeddings,
                   embedding_model, load_attempts, tiktoken_pkg, token_module,
                   start, chunks, cacheVars, chatVars>>

\* the words w1 w2 ... wn
Numbered(n) ==
    [i \in 1..n |-> Word("w" \o ToString(i), 2, FALSE)]

\* word sequences: distinct words, or one word repeated
ChunkWordLists ==
    { Numbered(n) : n \in 0..MaxChunkWords }
    \cup { [i \in 1..n |-> Word("la", 2, FALSE)] : n \in 1..MaxChunkWords }

\* the words separated by one blank each, or by two
ChunkTexts ==
    { [i \in 1..Len(ws) |-> Placed(ws[i], IF i = Len(ws) THEN 0 ELSE g)] :
        ws \in ChunkWordLists, g \in GapChoices }

InitChunk ==
    /\ NoCall
    /\ NoCache
    /\ NoChat
    /\ NoCacheEnv
    /\ transcript \in ChunkTexts
    /\ chunk_size \in 1..MaxChunkSize
    /\ chunk_overlap \in 0..(chunk_size - 1)
    /\ question = << >>
    /\ history = << >>
    /\ max_tokens = 0
    /\ embedder = NoEmbedder

NextChunk == ChunkBegin \/ ChunkStep \/ ChunkReturn

SpecChunk == InitChunk /\ [][NextChunk]_vars

\* chunk_transcript with any overlap, followed for MaxIterations iterations
\* of its loop
MaxIterations == 8

InitChunkLoop ==
    /\ NoCall
    /\ NoCache
    /\ NoChat
    /\ NoCacheEnv
    /\ transcript \in ChunkTexts
    /\ chunk_size \in 0..MaxChunkSize
    /\ chunk_overlap \in 0..(MaxChunkSize + 1)
    /\ question = << >>
    /\ history = << >>
    /\ max_tokens = 0
    /\ embedder = NoEmbedder

NextChunkLoop ==
    \/ ChunkBegin
    \/ Len(chunks) < MaxIterations /\ ChunkStep
    \/ ChunkReturn

\* the interpreter goes on with the call it is in
SpecChunkLoop ==
    InitChunkLoop /\ [][NextChunkLoop]_vars /\ WF_vars(NextChunkLoop)

\* the similarities the embedding model can give the chunks, in hundredths
SimilarityChoices == {-20, 35, 90}

\* chunks a generated long transcript is split into, at most
MaxRagChunks == 2

EmbedderOutcomes ==
    { [init_ok |-> FALSE, encode_ok |-> FALSE, search_ok |-> FALSE,
       similarities |-> [i \in 1..MaxRagChunks |-> 0]],
      [init_ok |-> TRUE, encode_ok |-> FALSE, search_ok |-> FALSE,
       similarities |-> [i \in 1..MaxRagChunks |-> 0]] }
    \cup [init_ok : {TRUE}, encode_ok : {TRUE}, search_ok : BOOLEAN,
          similarities : [1..MaxRagChunks -> SimilarityChoices]]

\* n times the word wd, every k-th of them ending a sentence (k = 0: none)
Sentenced(name, l, n, k) ==
    [i \in 1..n |->
        Placed(Word(name, l, k > 0 /\ i % k = 0), IF i = n THEN 0 ELSE 1)]

\* long transcripts.  With 600 words of 6399 characters the first chunk of
\* 500 words counts 799999 tokens; four one-word sentences of 800003
\* characters count 200000 tokens each.
RagWordLengths == {100, 5333, 6399, 8100}

RagTranscripts ==
    { Sentenced("x" \o ToString(l), l, n, k) :
        l \in RagWordLengths, n \in {400, 600}, k \in {0, 150} }
    \cup { Sentenced("s" \o ToString(l), l, 4, 1) : l \in {800000, 800003} }

CallPrepareRagContext ==
    /\ called = "none"
    /\ LET cs == chunk_transcript(transcript, DEFAULT_CHUNK_SIZE, DEFAULT_CHUNK_OVERLAP)
       IN  \E order \in ArgSorts(SubSeq(embedder.similarities, 1, Len(cs))) :
               ret' = prepare_rag_context(transcript, question, history, embedder, order)
    /\ called' = "prepare_rag_context"
    /\ UNCHANGED <<transcript, question, history, max_tokens, chunk_size,
                   chunk_overlap, embedder, top_k, chunk_embeddings,
                   embedding_model, load_attempts, tiktoken_pkg, token_module,
                   start, chunks, cacheVars, chatVars>>

InitRag ==
    /\ NoCall
    /\ NoCache
    /\ NoChat
    /\ NoCacheEnv
    /\ transcript \in RagTranscripts
    /\ question \in { Blob("q0", 0), Blob("q8", 8) }
    /\ history \in { h \in Histories : Len(h) <= 1 /\ \A i \in 1..Len(h) :
                                       h[i].content = Blob("m20", 20) /\ h[i].role = "user" }
    /\ embedder \in EmbedderOutcomes
    /\ max_tokens = 0
    /\ chunk_size = 1
    /\ chunk_overlap = 0

NextRag == CallPrepareRagContext

SpecRag == InitRag /\ [][NextRag]_vars


\* search_relevant_chunks on its own: any chunk list, any embeddings
\* (none, or rows one fewer to one more than the chunks), any top_k
SearchChunk(i) == Blob("c" \o ToString(i), 8)

SearchChunkLists ==
    { [i \in 1..n |-> SearchChunk(i)] : n \in 0..MaxSearchChunks }
    \cup { [i \in 1..n |-> SearchChunk(1)] : n \in 2..MaxSearchChunks }

\* cosines in hundredths, and the 0/0 of a vector of norm zero
SearchSimilarities == {35, 90, NaN}

\* the arrays of n similarities
RECURSIVE SimilarityRows(_)
SimilarityRows(n) ==
    IF n = 0 THEN { << >> }
    ELSE { Append(rows, x) : rows \in SimilarityRows(n - 1), x \in SearchSimilarities }

SearchEmbedders ==
    { [init_ok |-> i, encode_ok |-> TRUE, search_ok |-> i /\ q,
       similarities |-> << >>] : i, q \in BOOLEAN }

CallSearchRelevantChunks ==
    /\ called = "none"
    /\ \E order \in ArgSorts(chunk_embeddings.rows) :
           ret' = search_relevant_chunks(chunks, chunk_embeddings, embedder, top_k, order)
    /\ called' = "search_relevant_chunks"
    /\ UNCHANGED <<transcript, question, history, max_tokens, chunk_size,
                   chunk_overlap, embedder, top_k, chunk_embeddings,
                   embedding_model, load_attempts, tiktoken_pkg, token_module,
                   start, chunks, cacheVars, chatVars>>

InitSearch ==
    /\ called = "none"
    /\ ret = << >>
    /\ start = 0
    /\ embedding_model = None
    /\ load_attempts = 0
    /\ TokenModuleLoaded
    /\ NoCache
    /\ NoChat
    /\ NoCacheEnv
    /\ chunks \in SearchChunkLists
    /\ chunk_embeddings \in
         {NoEmbeddings} \cup
         { Embeddings(rows) :
             rows \in UNION { SimilarityRows(n) :
                     n \in { m \in (Len(chunks) - 1)..(Len(chunks) + 1) : m >= 0 } } }
    /\ top_k \in (-1)..(MaxSearchChunks + 1)
    /\ embedder \in SearchEmbedders
    /\ transcript = << >>
    /\ question = << >>
    /\ history = << >>
    /\ max_tokens = 0
    /\ chunk_size = 1
    /\ chunk_overlap = 0

\* a process that imports token_management and calls count_tokens
MaxTextChars == 16

TokenizerPackages ==
    [installed : BOOLEAN, encoding : {"ok", "ImportError", "OtherError"}]

NoCount == [is_none |-> FALSE, length |-> 0, raised |-> "", value |-> 0]

ImportTokenManagement ==
    /\ token_module = "unloaded"
    /\ token_module' = import_token_management(tiktoken_pkg)
    /\ UNCHANGED <<transcript, question, history, max_tokens, chunk_size,
                   chunk_overlap, embedder, top_k, chunk_embeddings,
                   embedding_model, load_attempts, tiktoken_pkg, start, chunks,
                   called, ret, cacheVars, chatVars>>

\* count_tokens(text) of the imported module, text being None or a str of
\* the given length; the tokenizer gives a text between one token and one
\* token per character
CallCountTokens(is_none, length) ==
    /\ token_module \in {"tiktoken", "fallback"}
    /\ \E out \in IF token_module = "fallback"
                  THEN { count_tokens_fallback(is_none, length) }
                  ELSE IF is_none \/ length = 0
                  THEN { [raised |-> "", value |-> 0] }
                  ELSE { [raised |-> "", value |-> n] : n \in 1..length } :
           ret' = [is_none |-> is_none, length |-> length,
                   raised |-> out.raised, value |-> out.value]
    /\ called' = "count_tokens"
    /\ UNCHANGED <<transcript, question, history, max_tokens, chunk_size,
                   chunk_overlap, embedder, top_k, chunk_embeddings,
                   embedding_model, load_attempts, tiktoken_pkg, token_module,
                   start, chunks, cacheVars, chatVars>>

InitTokenModule ==
    /\ called = "none"
    /\ ret = NoCount
    /\ start = 0
    /\ chunks = << >>
    /\ top_k = DEFAULT_TOP_K_CHUNKS
    /\ chunk_embeddings = NoEmbeddings
    /\ embedding_model = None
    /\ load_attempts = 0
    /\ tiktoken_pkg \in TokenizerPackages
    /\ token_module = "unloaded"
    /\ NoCache
    /\ NoChat
    /\ NoCacheEnv
    /\ embedder = NoEmbedder
    /\ transcript = << >>
    /\ question = << >>
    /\ history = << >>
    /\ max_tokens = 0
    /\ chunk_size = 1
    /\ chunk_overlap = 0

NextTokenModule ==
    \/ ImportTokenManagement
    \/ CallCountTokens(TRUE, 0)
    \/ \E length \in 0..MaxTextChars : CallCountTokens(FALSE, length)

SpecTokenModule == InitTokenModule /\ [][NextTokenModule]_vars

NextSearch == CallSearchRelevantChunks

SpecSearch == InitSearch /\ [][NextSearch]_vars

\* one process that calls create_embeddings and search_relevant_chunks
\* again and again, while the model files come and go
MaxLoadAttempts == 3

ProcessEmbedders ==
    { [init_ok |-> i, encode_ok |-> TRUE, search_ok |-> TRUE,
       similarities |-> [n \in 1..MaxSearchChunks |-> 35]] : i \in BOOLEAN }

\* what the embedding model does in a call made now
EmbedderNow(init) == [embedder EXCEPT !.init_ok = init.ok]

\* create_embeddings(chunks) in the process; its result is kept for the
\* searches that follow
ProcessCreateEmbeddings(cs) ==
    LET init == IF cs = << >>
                THEN [ok |-> TRUE, model |-> embedding_model,
                      attempts |-> load_attempts]
                ELSE initialize_embedding_model(embedding_model,
                                                embedder.init_ok, load_attempts)
    IN  /\ init.attempts <= MaxLoadAttempts
        /\ chunks' = cs
        /\ chunk_embeddings' = create_embeddings(cs, EmbedderNow(init))
        /\ embedding_model' = init.model
        /\ load_attempts' = init.attempts
        /\ called' = "create_embeddings"
        /\ ret' = << >>
        /\ UNCHANGED <<transcript, question, history, max_tokens, chunk_size,
                       chunk_overlap, embedder, top_k, start, tiktoken_pkg,
                       token_module, cacheVars, chatVars>>

\* search_relevant_chunks(question, chunks, chunk_embeddings, top_k) in the
\* process
ProcessSearchRelevantChunks ==
    LET init == IF chunks = << >> \/ chunk_embeddings.none
                THEN [ok |-> TRUE, model |-> embedding_model,
                      attempts |-> load_attempts]
                ELSE initialize_embedding_model(embedding_model,
                                                embedder.init_ok, load_attempts)
    IN  /\ init.attempts <= MaxLoadAttempts
        /\ \E order \in ArgSorts(chunk_embeddings.rows) :
               ret' = search_relevant_chunks(chunks, chunk_embeddings,
                                             EmbedderNow(init), top_k, order)
        /\ embedding_model' = init.model
        /\ load_attempts' = init.attempts
        /\ called' = "search_relevant_chunks"
        /\ UNCHANGED <<transcript, question, history, max_tokens, chunk_size,
                       chunk_overlap, embedder, top_k, chunk_embeddings, start,
                       chunks, tiktoken_pkg, token_module, cacheVars, chatVars>>

\* the model files become available, or stop being so
LoaderChanges ==
    /\ embedder' = [embedder EXCEPT !.init_ok = ~@]
    /\ UNCHANGED <<transcript, question, history, max_tokens, chunk_size,
                   chunk_overlap, top_k, chunk_embeddings, embedding_model,
                   load_attempts, tiktoken_pkg, token_module, start, chunks,
                   called, ret, cacheVars, chatVars>>

InitEmbedding ==
    /\ NoCall
    /\ NoCache
    /\ NoChat
    /\ NoCacheEnv
    /\ embedder \in ProcessEmbedders
    /\ transcript = << >>
    /\ question = << >>
    /\ history = << >>
    /\ max_tokens = 0
    /\ chunk_size = 1
    /\ chunk_overlap = 0

NextEmbedding ==
    \/ \E cs \in { [i \in 1..n |-> SearchChunk(i)] : n \in 0..MaxSearchChunks } :
          ProcessCreateEmbeddings(cs)
    \/ ProcessSearchRelevantChunks
    \/ LoaderChanges

SpecEmbedding == InitEmbedding /\ [][NextEmbedding]_vars


\* ---- callers of the cache
CallSetCache(sequential, key, value, ttl) ==
    /\ SetCacheBegin(sequential, key, value, ttl)
    /\ UNCHANGED inserted

\* values callers cache: a dict of JSON's own types, a dict that holds a
\* tuple, a dict with an int key, a str, and a set (which json.dumps
\* refuses)
NativeDict ==
    PyDict(<< Pair(PyStr("title"), PyStr("t")),
              Pair(PyStr("tags"), PyList(<< PyStr("x"), PyInt(1) >>)) >>)

CacheValues ==
    { NativeDict,
      PyDict(<< Pair(PyStr("range"), PyTuple(<< PyInt(0), PyInt(5) >>)) >>),
      PyDict(<< Pair(PyInt(1), PyStr("one")) >>),
      PyStr("text"),
      PySet(<< PyInt(1) >>) }

\* ttl arguments: None (0) or one tick
TtlChoices == { 0, 1 }

\* (maxmemory, used_memory) of INFO memory: no ceiling, at 90 percent of
\* the ceiling, above 90 percent
MemoryChoices == { <<0, 0>>, <<10, 9>>, <<10, 10>> }

\* callers that await every call, and let its task finish, before the next
InitCache ==
    /\ FnIdle
    /\ NoCache
    /\ NoChat
    /\ reachable \in BOOLEAN
    /\ \E m \in MemoryChoices : maxmemory = m[1] /\ used_memory = m[2]
    /\ max_cache_keys = 1

CacheNext(sequential, keys, values, ttls) ==
    \/ \E k \in keys, v \in values, ttl \in ttls :
            CallSetCache(sequential, k, v, ttl)
    \/ \E t \in DOMAIN tasks : SetCacheCheck(t)
    \/ \E t \in DOMAIN tasks : SetCacheWrite(t)
    \/ \E k \in keys, stats \in BOOLEAN : GetCache(sequential, k, stats)
    \/ \E k \in keys : DeleteCache(sequential, k)
    \/ ClearCache(sequential)
    \/ Tick

NextCache == CacheNext(TRUE, CacheKeys, {NativeDict}, TtlChoices)

SpecCache == InitCache /\ [][NextCache /\ UNCHANGED <<fnVars, chatVars>>]_vars

\* one key written with and without a ttl, by callers that await every
\* call and let its task finish
InitExpiry ==
    /\ FnIdle
    /\ NoCache
    /\ NoChat
    /\ reachable = TRUE
    /\ maxmemory = 0
    /\ used_memory = 0
    /\ max_cache_keys = 1

NextExpiry == CacheNext(TRUE, {"video_info:a"}, {NativeDict}, TtlChoices)

SpecExpiry == InitExpiry /\ [][NextExpiry /\ UNCHANGED <<fnVars, chatVars>>]_vars

\* one key, values json.dumps accepts and refuses, and a server that
\* comes and goes
OutageValues == { NativeDict, PySet(<< PyInt(1) >>),
                  PyDict(<< Pair(PyStr("seen"), PySet(<< PyInt(1) >>)) >>) }

InitOutage ==
    /\ FnIdle
    /\ NoCache
    /\ NoChat
    /\ reachable \in BOOLEAN
    /\ maxmemory = 0
    /\ used_memory = 0
    /\ max_cache_keys = 1

NextOutage ==
    \/ CacheNext(TRUE, {"video_info:a"}, OutageValues, {0})
    \/ Outage

SpecOutage == InitOutage /\ [][NextOutage /\ UNCHANGED <<fnVars, chatVars>>]_vars

\* callers that run concurrently on one event loop
InitCacheAsync ==
    /\ FnIdle
    /\ NoCache
    /\ NoChat
    /\ reachable = TRUE
    /\ maxmemory = 0
    /\ used_memory = 0
    /\ max_cache_keys = 1

NextCacheAsync == CacheNext(FALSE, {"video_info:a"}, {NativeDict}, {0})

SpecCacheAsync == InitCacheAsync /\ [][NextCacheAsync /\ UNCHANGED <<fnVars, chatVars>>]_vars

\* two payloads for one key, written and read by callers that run
\* concurrently
Payload(n) == PyDict(<< Pair(PyStr("title"), PyStr("v" \o ToString(n))) >>)

InitOverwrite ==
    /\ FnIdle
    /\ NoCache
    /\ NoChat
    /\ reachable = TRUE
    /\ maxmemory = 0
    /\ used_memory = 0
    /\ max_cache_keys = 1

NextOverwrite ==
    \/ \E v \in { Payload(1), Payload(2) } :
            CallSetCache(FALSE, "video_info:a", v, 0)
    \/ \E t \in DOMAIN tasks : SetCacheCheck(t)
    \/ \E t \in DOMAIN tasks : SetCacheWrite(t)
    \/ \E stats \in BOOLEAN : GetCache(FALSE, "video_info:a", stats)

SpecOverwrite == InitOverwrite /\ [][NextOverwrite /\ UNCHANGED <<fnVars, chatVars>>]_vars

\* one key read with and without the statistics, and a connection that
\* is closed at some point
InitStats ==
    /\ FnIdle
    /\ NoCache
    /\ NoChat
    /\ reachable = TRUE
    /\ maxmemory = 0
    /\ used_memory = 0
    /\ max_cache_keys = 1

NextStats ==
    \/ CallSetCache(TRUE, "video_info:a", NativeDict, 0)
    \/ \E t \in DOMAIN tasks : SetCacheCheck(t)
    \/ \E t \in DOMAIN tasks : SetCacheWrite(t)
    \/ \E stats \in BOOLEAN : GetCache(TRUE, "video_info:a", stats)
    \/ Tick
    \/ close_redis

SpecStats == InitStats /\ [][NextStats /\ UNCHANGED <<fnVars, chatVars>>]_vars

\* two keys under a ceiling of one key, with and without a memory ceiling
InitCapacity ==
    /\ FnIdle
    /\ NoCache
    /\ NoChat
    /\ reachable = TRUE
    /\ \E m \in MemoryChoices : maxmemory = m[1] /\ used_memory = m[2]
    /\ max_cache_keys = 1

NextCapacity ==
    \/ \E k \in CacheKeys : CallSetCache(TRUE, k, NativeDict, 0)
    \/ \E t \in DOMAIN tasks : SetCacheCheck(t)
    \/ \E t \in DOMAIN tasks : SetCacheWrite(t)
    \/ \E k \in CacheKeys : GetCache(TRUE, k, FALSE)
    \/ Tick

SpecCapacity == InitCapacity /\ [][NextCapacity /\ UNCHANGED <<fnVars, chatVars>>]_vars

\* three keys under a ceiling of one key and no memory ceiling
CapacityKeys == { "video_info:a", "transcript:a", "summary:a" }

InitKeyCount ==
    /\ FnIdle
    /\ NoCache
    /\ NoChat
    /\ reachable = TRUE
    /\ maxmemory = 0
    /\ used_memory = 0
    /\ max_cache_keys = 1

KeyCountNext(sequential) ==
    \/ \E k \in CapacityKeys : CallSetCache(sequential, k, NativeDict, 0)
    \/ \E t \in DOMAIN tasks : SetCacheCheck(t)
    \/ \E t \in DOMAIN tasks : SetCacheWrite(t)
    \/ \E stats \in BOOLEAN : GetCache(sequential, "video_info:a", stats)
    \/ DeleteCache(sequential, "transcript:a")

\* callers that await every call, and let its task finish, before the next
SpecKeyCount ==
    InitKeyCount /\ [][KeyCountNext(TRUE) /\ UNCHANGED <<fnVars, chatVars>>]_vars

\* callers that run concurrently on one event loop
SpecKeyCountAsync ==
    InitKeyCount /\ [][KeyCountNext(FALSE) /\ UNCHANGED <<fnVars, chatVars>>]_vars

\* one key, set to each kind of value and read back
InitRoundTrip ==
    /\ FnIdle
    /\ NoCache
    /\ NoChat
    /\ reachable \in BOOLEAN
    /\ maxmemory = 0
    /\ used_memory = 0
    /\ max_cache_keys = 1

NextRoundTrip == CacheNext(TRUE, {"video_info:a"}, CacheValues, TtlChoices)

SpecRoundTrip == InitRoundTrip /\ [][NextRoundTrip /\ UNCHANGED <<fnVars, chatVars>>]_vars

\* the scenario of twelve inserts: key-count ceiling 10, no memory ceiling,
\* keys k1 .. k12 set one after the other, the clock advancing by one or
\* two ticks between two inserts
FillKey(i) == "k" \o ToString(i)

FillValue(i) == PyDict(<< Pair(PyStr("n"), PyInt(i)) >>)

InitFill ==
    /\ FnIdle
    /\ NoCache
    /\ NoChat
    /\ reachable = TRUE
    /\ maxmemory = 0
    /\ used_memory = 0
    /\ max_cache_keys = 10

FillInsert ==
    /\ inserted < 12
    /\ now > last_op.at
    /\ SetCacheBegin(TRUE, FillKey(inserted + 1), FillValue(inserted + 1), 0)
    /\ inserted' = inserted + 1

FillTick ==
    /\ AllIdle
    /\ now < last_op.at + 2
    /\ now' = now + 1
    /\ UNCHANGED <<redis_client, init_attempted, redis_db, tasks, last_op,
                   prev_op, last_cleanup, deleted, inserted, expiring, last_set,
                   envVars>>

NextFill ==
    \/ FillInsert
    \/ \E t \in DOMAIN tasks : SetCacheCheck(t)
    \/ \E t \in DOMAIN tasks : SetCacheWrite(t)
    \/ FillTick

SpecFill == InitFill /\ [][NextFill /\ UNCHANGED <<fnVars, chatVars>>]_vars

----------------------------------------------------------------------------
(* app/utils/cache.py: the cache of the summary service *)

CACHE_KEY == PyStr("_cache_key")
TRANSCRIPT == PyStr("transcript")
TRANSCRIPT_LENGTH == PyStr("_transcript_length")
LAST_CLEANUP_TIME == "last_cleanup_time"

UtilsKeys ==
    { "transcript:a", "video_info:a", "languages:a", "summary:a", "summary:b" }

\* key.startswith('transcript:')
startswith_transcript(key) == key \in { "transcript:a" }

\* len(x) of a str or a list
PyLen(x) == IF x.t = "str" THEN Len(x.s) ELSE Len(x.items)

\* the metadata this set_cache adds to a dict
utils_Stamped(key, value, instant) ==
    IF value.t # "dict" THEN value
    ELSE LET marked == SetItem(SetItem(value, CACHED_AT, isoformat(instant)),
                               CACHE_KEY, PyStr(key))
         IN  IF startswith_transcript(key) /\ HasItem(value, TRANSCRIPT)
             THEN SetItem(marked, TRANSCRIPT_LENGTH,
                          PyInt(PyLen(GetItem(value, TRANSCRIPT, PyStr("")))))
             ELSE marked

\* key_timestamps: (key, _cached_at) of every key but last_cleanup_time
utils_key_timestamps(db) ==
    { IF /\ Parses(db[k].data)
         /\ json_loads(db[k].data).t = "dict"
         /\ HasItem(json_loads(db[k].data), CACHED_AT)
      THEN [key |-> k,
            last_accessed |-> GetItem(json_loads(db[k].data), CACHED_AT, EPOCH),
            access_count |-> PyInt(0)]
      ELSE [key |-> k, last_accessed |-> EPOCH, access_count |-> PyInt(0)]
      : k \in DOMAIN db \ { LAST_CLEANUP_TIME } }

\* key_timestamps[:int(len(key_timestamps) * 0.2)]
utils_apply_lru_cleanup(order) ==
    { order[i].key : i \in 1..((Len(order) * 2) \div 10) }

\* this module's check_memory_usage; a cleanup that removed keys records
\* its time under last_cleanup_time
utils_check_memory_usage(db, cleanup) ==
    IF cleanup_due(db, maxmemory, used_memory, max_cache_keys)
    THEN { [db |-> IF utils_apply_lru_cleanup(order) # {}
                   THEN Stored(Without(db, utils_apply_lru_cleanup(order)),
                               LAST_CLEANUP_TIME, RawText("isoformat", now), 0)
                   ELSE db,
            cleanup |-> [ran |-> TRUE, before |-> db,
                         removed |-> utils_apply_lru_cleanup(order)]] :
           order \in SortedOrders(utils_key_timestamps(db)) }
    ELSE { [db |-> db, cleanup |-> cleanup] }

cacheFrame == <<init_attempted, tasks, deleted, inserted, expiring, last_set,
                   envVars>>

\* init_redis at startup: the client stays assigned when the ping fails
UtilsInitRedis ==
    /\ redis_client = None
    /\ redis_client' = "client"
    /\ UNCHANGED <<redis_db, now, last_op, prev_op, last_cleanup, cacheFrame>>

\* set_cache of app/utils/cache.py on the store db: the stores it can leave
utils_set_cache(db, cleanup, key, value, expiry_seconds) ==
    IF redis_client = None \/ ~reachable
    THEN { [db |-> db, cleanup |-> cleanup, ok |-> FALSE] }
    ELSE { [db |-> IF Serializable(utils_Stamped(key, value, now))
                   THEN Stored(out.db, key,
                               json_dumps(utils_Stamped(key, value, now)),
                               IF expiry_seconds # 0
                               THEN now + expiry_seconds ELSE 0)
                   ELSE out.db,
            cleanup |-> out.cleanup,
            ok |-> Serializable(utils_Stamped(key, value, now))] :
           out \in utils_check_memory_usage(db, cleanup) }

\* get_cache of app/utils/cache.py
utils_get_cache(db, key) ==
    IF /\ redis_client # None
       /\ reachable
       /\ key \in DOMAIN db
       /\ Parses(db[key].data)
    THEN json_loads(db[key].data)
    ELSE PyNone

\* a caller calls set_cache(key, value, expiry_seconds)
UtilsSetCache(key, value, expiry_seconds) ==
    /\ \E out \in utils_set_cache(redis_db, last_cleanup, key, value,
                                  expiry_seconds) :
          /\ redis_db' = out.db
          /\ last_cleanup' = out.cleanup
          /\ Returned("set", key, value, PyBool(out.ok))
    /\ UNCHANGED <<redis_client, now, cacheFrame>>

\* a caller calls get_cache(key)
UtilsGetCache(key) ==
    /\ Returned("get", key, PyNone, utils_get_cache(redis_db, key))
    /\ UNCHANGED <<redis_client, redis_db, now, last_cleanup, cacheFrame>>

\* delete_cache(key)
UtilsDeleteCache(key) ==
    /\ IF redis_client = None \/ ~reachable
       THEN /\ Returned("delete", key, PyNone, PyBool(FALSE))
            /\ UNCHANGED redis_db
       ELSE /\ Returned("delete", key, PyNone, PyBool(TRUE))
            /\ redis_db' = Without(redis_db, {key})
    /\ UNCHANGED <<redis_client, now, last_cleanup, cacheFrame>>

InitUtilsCache ==
    /\ FnIdle
    /\ NoCache
    /\ NoChat
    /\ reachable \in BOOLEAN
    /\ \E m \in { <<0, 0>>, <<10, 10>> } : maxmemory = m[1] /\ used_memory = m[2]
    /\ max_cache_keys = 4

NextUtilsCache ==
    \/ UtilsInitRedis
    \/ \E k \in UtilsKeys : UtilsSetCache(k, NativeDict, 0)
    \/ UtilsGetCache("summary:a")
    \/ UtilsDeleteCache("summary:a")
    \/ Tick

SpecUtilsCache == InitUtilsCache /\ [][NextUtilsCache /\ UNCHANGED <<fnVars, chatVars>>]_vars

----------------------------------------------------------------------------
(* The question and summary request handlers: services/ai_service.py,      *)
(* services/chat_service.py, api/routes/qa.py, services/summary_service.py *)

\* what a call of the model can do: answer, or raise with one of these
\* messages
LlmErrors ==
    { "503 UNAVAILABLE", "429 RESOURCE_EXHAUSTED", "API key not valid",
      "The read operation timed out" }

LlmOutcomes == { "ok" } \cup LlmErrors

\* generate_qa_response: the text it returns; it raises nothing
generate_qa_response(has_key, outcome) ==
    IF ~has_key THEN "API key not configured. Unable to generate answer."
    ELSE IF outcome = "ok" THEN "an answer"
    ELSE "Failed to generate answer: " \o outcome

\* generate_summary: the text it returns; it raises nothing
generate_summary(has_key, outcome) ==
    IF ~has_key THEN "API key not configured. Unable to generate summary."
    ELSE IF outcome = "ok" THEN "a summary"
    ELSE "Failed to generate summary: " \o outcome

\* "Failed to generate answer:" in answer
IsFailureText(answer) ==
    answer \in { "Failed to generate answer: " \o e : e \in LlmErrors }

\* "503" in error_message or "UNAVAILABLE" in error_message
MentionsUnavailable(answer) ==
    answer = "Failed to generate answer: 503 UNAVAILABLE"

\* "429" in error_message or "RESOURCE_EXHAUSTED" in error_message
MentionsExhausted(answer) ==
    answer = "Failed to generate answer: 429 RESOURCE_EXHAUSTED"

\* "API key" in error_message
MentionsApiKey(answer) ==
    answer = "Failed to generate answer: API key not valid"

\* whether ask_video_question raises an HTTPException for this answer
RouteRaises(answer, user_api_key) ==
    /\ IsFailureText(answer)
    /\ \/ MentionsUnavailable(answer)
       \/ MentionsExhausted(answer)
       \/ user_api_key /\ MentionsApiKey(answer)

Turn(role, content) == [role |-> role, content |-> content]

\* a history a request can carry: none, or one earlier exchange
RequestHistories ==
    { << >>, << Turn("user", "an earlier question"),
                Turn("model", "an earlier answer") >> }

\* the history of the first stored chat of the video, if there is one
StoredHistory == IF video_chats = << >> THEN << >> ELSE video_chats[1].history

\* the history process_video_question starts from
service_history(req_history) ==
    IF req_history # << >> THEN req_history ELSE StoredHistory

\* the history ask_video_question starts from
route_history(req_history) ==
    IF StoredHistory # << >> /\ req_history = << >>
    THEN StoredHistory ELSE req_history

cacheIdleVars == <<redis_client, init_attempted, now, tasks, last_op, prev_op,
                   deleted, inserted, expiring, last_set,
                   envVars>>

\* a question arrives, at the service (routes/chat.py) or at the route of
\* routes/qa.py
AskBegin(r, kind, req_history, user_api_key) ==
    /\ requests[r].pc = "idle"
    /\ requests' = [requests EXCEPT ![r] =
            [NoRequest EXCEPT !.kind = kind, !.pc = "find_chat",
                              !.question = "question " \o ToString(r),
                              !.req_history = req_history,
                              !.user_api_key = user_api_key]]
    /\ UNCHANGED <<video_chats, summaries, gemini_api_key, redis_db,
                   last_cleanup, cacheIdleVars>>

\* db.video_chats.find_one, the history to start from, and the new question
FindChat(r) ==
    /\ requests[r].pc = "find_chat"
    /\ requests' = [requests EXCEPT
            ![r].pc = "generate",
            ![r].chat = (video_chats # << >>),
            ![r].history = Append(
                IF requests[r].kind = "service"
                THEN service_history(requests[r].req_history)
                ELSE route_history(requests[r].req_history),
                Turn("user", requests[r].question))]
    /\ UNCHANGED <<video_chats, summaries, gemini_api_key, redis_db,
                   last_cleanup, cacheIdleVars>>

\* generate_qa_response and what the handler does with its text: the route
\* raises for some failure texts, the service for none
GenerateAnswer(r, outcome) ==
    /\ requests[r].pc = "generate"
    /\ requests[r].kind \in { "service", "route" }
    /\ LET has_key == requests[r].user_api_key \/ gemini_api_key
           answer == generate_qa_response(has_key, outcome)
       IN  requests' = [requests EXCEPT
               ![r].llm = IF has_key THEN outcome ELSE "none",
               ![r].answer = answer,
               ![r].pc = IF /\ requests[r].kind = "route"
                            /\ RouteRaises(answer, requests[r].user_api_key)
                         THEN "done" ELSE "write",
               ![r].status = IF /\ requests[r].kind = "route"
                                /\ RouteRaises(answer, requests[r].user_api_key)
                             THEN "error" ELSE "",
               ![r].history = Append(requests[r].history, Turn("model", answer))]
    /\ UNCHANGED <<video_chats, summaries, gemini_api_key, redis_db,
                   last_cleanup, cacheIdleVars>>

\* a write that appends the two new turns to what the store holds now
WriteChat_Appends(r) ==
    /\ requests[r].pc = "write"
    /\ requests[r].kind \in { "service", "route" }
    /\ video_chats' =
          IF video_chats # << >>
          THEN [video_chats EXCEPT ![1].history =
                   @ \o << Turn("user", requests[r].question),
                           Turn("model", requests[r].answer) >>]
          ELSE Append(video_chats, [history |-> requests[r].history])
    /\ requests' = [requests EXCEPT ![r].pc = "done", ![r].status = "ok",
                                    ![r].wrote_history = TRUE]
    /\ UNCHANGED <<summaries, gemini_api_key, redis_db, last_cleanup,
                   cacheIdleVars>>

\* update_one of the chat found before, or insert_one of a new chat
WriteChat(r) ==
    /\ requests[r].pc = "write"
    /\ requests[r].kind \in { "service", "route" }
    /\ video_chats' =
          IF requests[r].chat
          THEN [video_chats EXCEPT ![1].history = requests[r].history]
          ELSE Append(video_chats, [history |-> requests[r].history])
    /\ requests' = [requests EXCEPT ![r].pc = "done", ![r].status = "ok",
                                    ![r].wrote_history = TRUE]
    /\ UNCHANGED <<summaries, gemini_api_key, redis_db, last_cleanup,
                   cacheIdleVars>>

SUMMARY_KEY == "summary:a"

SUMMARY_TEXT == PyStr("summary_text")

\* summary_data of cache_summary_result
summary_data(summary_text, instant) ==
    PyDict(<< Pair(PyStr("video_id"), PyStr("a")),
              Pair(PyStr("summary_type"), PyStr("Brief")),
              Pair(PyStr("summary_length"), PyStr("Short")),
              Pair(SUMMARY_TEXT, PyStr(summary_text)),
              Pair(PyStr("generated_at"), isoformat(instant)) >>)

\* a summary request arrives
SummaryBegin(r, force_regenerate, user_api_key) ==
    /\ requests[r].pc = "idle"
    /\ requests' = [requests EXCEPT ![r] =
            [NoRequest EXCEPT !.kind = "summary", !.pc = "lookup",
                              !.force_regenerate = force_regenerate,
                              !.user_api_key = user_api_key]]
    /\ UNCHANGED <<video_chats, summaries, gemini_api_key, redis_db,
                   last_cleanup, cacheIdleVars>>

\* create_summary up to generate_summary: get_cached_summary, which writes
\* a hit back, and on a hit the summary stored from the cached text
SummaryLookup(r) ==
    /\ requests[r].pc = "lookup"
    /\ LET cached == utils_get_cache(redis_db, SUMMARY_KEY)
           hit == /\ ~requests[r].force_regenerate
                  /\ cached.t = "dict"
       IN  IF ~hit
           THEN /\ requests' = [requests EXCEPT ![r].pc = "generate"]
                /\ UNCHANGED <<summaries, redis_db, last_cleanup>>
           ELSE /\ \E out \in utils_set_cache(redis_db, last_cleanup,
                                              SUMMARY_KEY, cached, 0) :
                      /\ redis_db' = out.db
                      /\ last_cleanup' = out.cleanup
                /\ IF HasItem(cached, SUMMARY_TEXT)
                   THEN /\ summaries' =
                             IF summaries = << >>
                             THEN << [summary_text |->
                                        GetItem(cached, SUMMARY_TEXT, PyNone).s] >>
                             ELSE summaries
                        /\ requests' = [requests EXCEPT ![r].pc = "done",
                                                        ![r].status = "ok"]
                   ELSE /\ requests' = [requests EXCEPT ![r].pc = "generate"]
                        /\ UNCHANGED summaries
    /\ UNCHANGED <<video_chats, gemini_api_key, cacheIdleVars>>

\* generate_summary and db.summaries.insert_one
SummaryGenerate(r, outcome) ==
    /\ requests[r].pc = "generate"
    /\ requests[r].kind = "summary"
    /\ LET has_key == requests[r].user_api_key \/ gemini_api_key
       IN  /\ requests' = [requests EXCEPT
                  ![r].llm = IF has_key THEN outcome ELSE "none",
                  ![r].answer = generate_summary(has_key, outcome),
                  ![r].pc = "cache"]
           /\ summaries' = Append(summaries,
                  [summary_text |-> generate_summary(has_key, outcome)])
    /\ UNCHANGED <<video_chats, gemini_api_key, redis_db, last_cleanup,
                   cacheIdleVars>>

\* cache_summary_result
SummaryCache(r) ==
    /\ requests[r].pc = "cache"
    /\ \E out \in utils_set_cache(redis_db, last_cleanup, SUMMARY_KEY,
                                  summary_data(requests[r].answer, now), 0) :
          /\ redis_db' = out.db
          /\ last_cleanup' = out.cleanup
          /\ requests' = [requests EXCEPT ![r].pc = "done", ![r].status = "ok",
                                          ![r].wrote_cache = out.ok]
    /\ UNCHANGED <<video_chats, summaries, gemini_api_key, cacheIdleVars>>

\* the server is up: init_redis has run, the key-count ceiling is the
\* default, and the server may or may not have a key of its own
InitChat ==
    /\ FnIdle
    /\ NoCache
    /\ video_chats = << >>
    /\ summaries = << >>
    /\ requests = [r \in 1..MaxRequests |-> NoRequest]
    /\ gemini_api_key \in BOOLEAN
    /\ reachable = TRUE
    /\ maxmemory = 0
    /\ used_memory = 0
    /\ max_cache_keys = 10000

NextChat ==
    \/ UtilsInitRedis /\ UNCHANGED chatVars
    \/ \E r \in DOMAIN requests, kind \in { "service", "route" },
          h \in RequestHistories, key \in BOOLEAN : AskBegin(r, kind, h, key)
    \/ \E r \in DOMAIN requests : FindChat(r)
    \/ \E r \in DOMAIN requests, outcome \in LlmOutcomes :
          GenerateAnswer(r, outcome)
    \/ \E r \in DOMAIN requests : WriteChat(r)
    \/ \E r \in DOMAIN requests, force \in BOOLEAN, key \in BOOLEAN :
          SummaryBegin(r, force, key)
    \/ \E r \in DOMAIN requests : SummaryLookup(r)
    \/ \E r \in DOMAIN requests, outcome \in LlmOutcomes :
          SummaryGenerate(r, outcome)
    \/ \E r \in DOMAIN requests : SummaryCache(r)

SpecChat == InitChat /\ [][NextChat /\ UNCHANGED fnVars]_vars

\* questions on a video that has no chat yet or has one stored exchange
StoredExchange ==
    << Turn("user", "a stored question"), Turn("model", "a stored answer") >>

InitRace ==
    /\ FnIdle
    /\ NoCache
    /\ NoCacheEnv
    /\ video_chats \in { << >>, << [history |-> StoredExchange] >> }
    /\ summaries = << >>
    /\ requests = [r \in 1..MaxRequests |-> NoRequest]
    /\ gemini_api_key = TRUE

NextRace ==
    \/ \E r \in DOMAIN requests, kind \in { "service", "route" },
          h \in RequestHistories : AskBegin(r, kind, h, FALSE)
    \/ \E r \in DOMAIN requests : FindChat(r)
    \/ \E r \in DOMAIN requests, outcome \in LlmOutcomes :
          GenerateAnswer(r, outcome)
    \/ \E r \in DOMAIN requests : WriteChat(r)

SpecRace == InitRace /\ [][NextRace /\ UNCHANGED fnVars]_vars

----------------------------------------------------------------------------
(* C1: the result of truncate_transcript(t, N) counts at most N tokens, by *)
(* the same counter, for every transcript t and every budget N >= 0.       *)
C1_TruncateWithinBudget ==
    called = "truncate_transcript" => count_tokens(ret) <= max_tokens

(* C2: the turns returned by manage_history_tokens plus the capped question *)
(* count at most max_history_tokens, for every history (the empty one      *)
(* included), question and max_history_tokens.                             *)
C2_HistoryWithinBudget ==
    called = "manage_history_tokens" =>
        HistoryTokens(ret[1]) + Min(count_tokens(question), MAX_QUESTION_TOKENS)
            <= max_tokens

\* the same, for a history that is not empty and a budget the question fits
C2_SyntheticTurnOverBudget ==
    ( /\ called = "manage_history_tokens"
      /\ history # << >>
      /\ Min(count_tokens(question), MAX_QUESTION_TOKENS) <= max_tokens )
    => C2_HistoryWithinBudget

Ceil(a, b) == (a + b - 1) \div b

\* "w1 w2 w3 w4 w5 w6" and its two chunks of the example
SixWords == Spaced(Numbered(6))
ExampleChunks ==
    << Spaced(SubSeq(Numbered(6), 1, 4)), Spaced(SubSeq(Numbered(6), 3, 6)) >>

(* C9: for W words, window S and overlap O < S with W > S, chunk_transcript *)
(* returns exactly ceil((W - O) / (S - O)) chunks, and                     *)
(* chunk_transcript("w1 w2 w3 w4 w5 w6", 4, 2) returns exactly             *)
(* ["w1 w2 w3 w4", "w3 w4 w5 w6"].                                         *)
C9_ChunkCount ==
    ( /\ called = "chunk_transcript"
      /\ chunk_overlap < chunk_size
      /\ Len(SplitWords(transcript)) > chunk_size )
    => /\ Len(ret) = Ceil(Len(SplitWords(transcript)) - chunk_overlap,
                          chunk_size - chunk_overlap)
       /\ (transcript = SixWords /\ chunk_size = 4 /\ chunk_overlap = 2)
             => ret = ExampleChunks

\* the chunks in order, each after the first without the words it shares
\* with its predecessor: its first min(overlap, length) words
RECURSIVE Reconstruct(_, _, _)
Reconstruct(cs, i, overlap) ==
    IF i > Len(cs) THEN << >>
    ELSE LET ws == SplitWords(cs[i])
             drop == IF i = 1 THEN 0 ELSE Min(overlap, Len(ws))
         IN  SubSeq(ws, drop + 1, Len(ws)) \o Reconstruct(cs, i + 1, overlap)

(* C10: for 0 <= O < S, the chunks of chunk_transcript concatenated in     *)
(* order, each chunk after the first without the words it shares with its  *)
(* predecessor, give exactly the word sequence of the transcript.          *)
C10_ChunkCoverage ==
    ( /\ called = "chunk_transcript"
      /\ 0 <= chunk_overlap
      /\ chunk_overlap < chunk_size )
    => Reconstruct(ret, 1, chunk_overlap) = SplitWords(transcript)

\* a call that returned three chunks, the last shorter than the overlap
C10_Witness ==
    /\ called = "chunk_transcript"
    /\ Len(ret) = 3
    /\ chunk_overlap = 2
    /\ Len(ret[3]) = 1

(* C8: what prepare_rag_context returns, counted as a whole with its       *)
(* relevance prefixes and separators, never exceeds MAX_TRANSCRIPT_TOKENS, *)
(* on the retrieval path and on the truncation fallback path.              *)
C8_RagWithinCeiling ==
    called = "prepare_rag_context" => count_tokens(ret) <= MAX_TRANSCRIPT_TOKENS

\* the retrieval path alone: embeddings and search succeeded
C8_RetrievalPathWithinCeiling ==
    ( /\ called = "prepare_rag_context"
      /\ embedder.init_ok /\ embedder.encode_ok /\ embedder.search_ok )
    => count_tokens(ret) <= MAX_TRANSCRIPT_TOKENS

----------------------------------------------------------------------------
(* C3: a run of apply_lru_cleanup on a cache of N >= 1 keys removes        *)
(* exactly max(1, floor(0.2 * N)) keys, and no key it keeps sorts before a *)
(* key it removes in the order by (last_accessed, access_count).           *)
C3_EvictionRemovesOldestFifth ==
    (last_cleanup.ran /\ DOMAIN last_cleanup.before # {}) =>
        LET N == Cardinality(DOMAIN last_cleanup.before)
            meta == key_metadata(last_cleanup.before)
            fifth == (N * 2) \div 10
        IN  /\ Cardinality(last_cleanup.removed) = IF fifth < 1 THEN 1 ELSE fifth
            /\ \A r \in meta, s \in meta :
                  (r.key \in last_cleanup.removed /\ s.key \notin last_cleanup.removed)
                      => ~Before(s, r)

(* C4: ceiling of 10 keys, no memory ceiling, 12 distinct keys inserted    *)
(* one after the other with increasing timestamps: once the twelfth insert *)
(* has completed, an eviction has removed the two oldest keys and the      *)
(* cache holds exactly 10 keys.                                            *)
C4_TwelveInsertsLeaveTen ==
    (inserted = 12 /\ AllIdle) =>
        /\ last_cleanup.ran
        /\ last_cleanup.removed = { FillKey(1), FillKey(2) }
        /\ Cardinality(DOMAIN redis_db) = 10
        /\ DOMAIN redis_db = { FillKey(i) : i \in 3..12 }

C4_Witness ==
    /\ inserted = 12
    /\ AllIdle
    /\ last_op = [op |-> "set", key |-> FillKey(12), arg |-> FillValue(12),
                  result |-> PyBool(TRUE), at |-> now]
    /\ Cardinality(DOMAIN redis_db) = 10

\* the value without the fields set_cache and get_cache inject
StripMeta(v) ==
    IF v.t = "dict"
    THEN [v EXCEPT !.pairs = SelectSeq(v.pairs,
              LAMBDA p : p.k \notin {CACHED_AT, LAST_ACCESSED, ACCESS_COUNT})]
    ELSE v

\* values made of None, bool, int, str, lists and dicts with str keys
RECURSIVE JsonNative(_)
JsonNative(v) ==
    IF v.t \in {"NoneType", "bool", "int", "str"} THEN TRUE
    ELSE IF v.t = "list"
    THEN \A i \in DOMAIN v.items : JsonNative(v.items[i])
    ELSE IF v.t = "dict"
    THEN \A i \in DOMAIN v.pairs :
            v.pairs[i].k.t = "str" /\ JsonNative(v.pairs[i].v)
    ELSE FALSE

\* a get(key) that returned right after a successful set(key, v) returned
GetRightAfterSet ==
    /\ last_op.op = "get"
    /\ prev_op.op = "set"
    /\ prev_op.result = PyBool(TRUE)
    /\ last_op.key = prev_op.key
    /\ last_op.at = prev_op.at

C7_AbsentUntilCallerSet ==
    \A k \in deleted : k \notin DOMAIN redis_db

(* C6: a request whose LLM call failed (timed out or raised) writes        *)
(* nothing to the stored conversation history and nothing to the cache.    *)
C6_FailureWritesNothing ==
    \A r \in DOMAIN requests :
        requests[r].llm \in LlmErrors =>
            ~requests[r].wrote_history /\ ~requests[r].wrote_cache

\* the same of the requests api/routes/qa.py handles, which raises for
\* some of the failures
C6_RouteFailureWritesNothing ==
    \A r \in DOMAIN requests :
        (requests[r].kind = "route" /\ requests[r].llm \in LlmErrors) =>
            ~requests[r].wrote_history

(* C11: search_relevant_chunks returns its pairs in non-increasing score   *)
(* order, every returned score is at least every score of a chunk it did   *)
(* not return, and with top_k >= len(chunks) it returns every chunk        *)
(* exactly once.                                                           *)

\* how many elements of seq satisfy being equal to x
CountOf(seq, x) == Cardinality({ i \in 1..Len(seq) : seq[i] = x })

\* the result lists its scores in non-increasing order
ScoresDescending(result) ==
    \A i \in 1..(Len(result) - 1) : FloatGe(result[i].score, result[i + 1].score)

\* the scores of the chunks the result leaves out: those the chunks have
\* more often than the result
ScoresLeftOut(result, cs, embeddings) ==
    LET have == SubSeq(embeddings.rows, 1, Min(Len(cs), Len(embeddings.rows)))
        given == [i \in 1..Len(result) |-> result[i].score]
    IN  { have[i] : i \in { j \in 1..Len(have) :
                              CountOf(have, have[j]) > CountOf(given, have[j]) } }

\* no returned score is below a score left out
ReturnedAreBest(result, cs, embeddings) ==
    ~embeddings.none =>
        \A i \in 1..Len(result) :
            \A x \in ScoresLeftOut(result, cs, embeddings) : FloatGe(result[i].score, x)

\* the result holds every chunk as often as the chunk list does
EveryChunkOnce(result, cs) ==
    /\ Len(result) = Len(cs)
    /\ \A i \in 1..Len(cs) :
          CountOf([j \in 1..Len(result) |-> result[j].chunk], cs[i]) = CountOf(cs, cs[i])

RankingHolds ==
    /\ ScoresDescending(ret)
    /\ ReturnedAreBest(ret, chunks, chunk_embeddings)
    /\ (top_k >= Len(chunks) => EveryChunkOnce(ret, chunks))

\* the search ran to its end on one row of numbers per chunk
SearchRan ==
    /\ embedder.init_ok /\ embedder.search_ok
    /\ ~chunk_embeddings.none
    /\ Len(chunk_embeddings.rows) = Len(chunks)
    /\ \A i \in 1..Len(chunk_embeddings.rows) : chunk_embeddings.rows[i] # NaN

C11_AllReturned ==
    /\ called = "search_relevant_chunks"
    /\ SearchRan
    /\ top_k >= Len(chunks)
    /\ Len(chunks) = 3
    /\ Len(ret) = 3


(* C12: the outputs of prepare_for_model satisfy count_tokens(managed     *)
(* transcript) + the tokens of the managed history + count_tokens(question)*)
(* <= MAX_TOTAL_TOKENS - RESERVE_TOKENS, for every transcript, question    *)
(* and history.                                                            *)
TotalInputTokens ==
    count_tokens(ret[1]) + HistoryTokens(ret[2]) + count_tokens(question)

\* C12 as stated; violated, since the question is counted but never capped
C12_PrepareWithinTotal ==
    called = "prepare_for_model" =>
        TotalInputTokens <= MAX_TOTAL_TOKENS - RESERVE_TOKENS

\* the total stays within the limit for the questions that are themselves
\* within MAX_QUESTION_TOKENS
C12_WithinTotalForShortQuestion ==
    (called = "prepare_for_model" /\ count_tokens(question) <= MAX_QUESTION_TOKENS) =>
        TotalInputTokens <= MAX_TOTAL_TOKENS - RESERVE_TOKENS


(* C13: an entry written with an expiration is returned by get while the  *)
(* expiration has not elapsed, and is reported not found by every get      *)
(* after it has elapsed, whatever gets were issued on the key in between.  *)

\* the get that returned last was for a key whose last caller's set gave
\* it the expiry instant at
LastGetOfExpiring(at) ==
    /\ last_op.op = "get"
    /\ [key |-> last_op.key, expire_at |-> at] \in expiring
    /\ last_op.key \notin CallerSetKeys

\* a get before the expiry instant finds the entry, unless the key was
\* deleted or a cleanup ran
C13_FoundBeforeExpiry ==
    \A at \in 1..(MaxClock + 1) :
        ( /\ LastGetOfExpiring(at)
          /\ last_op.at < at
          /\ last_op.key \notin deleted
          /\ ~last_cleanup.ran ) => last_op.result # PyNone

\* a get at or after the expiry instant reports the key not found
C13_NotFoundAfterExpiry ==
    \A at \in 1..(MaxClock + 1) :
        (LastGetOfExpiring(at) /\ last_op.at >= at) => last_op.result = PyNone

\* C13 as stated: both halves.  Violated: the set_cache(key, value, None)
\* that a get with update_access_stats schedules rewrites the key with a
\* plain SET, which drops the expiry
C13_ExpiryKept ==
    C13_FoundBeforeExpiry /\ C13_NotFoundAfterExpiry

\* the second half for keys no get has updated the statistics of
C13_NotFoundAfterExpiryUntouched ==
    \A at \in 1..(MaxClock + 1) :
        ( /\ LastGetOfExpiring(at)
          /\ last_op.at >= at
          /\ ~HasItem(last_op.result, LAST_ACCESSED) ) => last_op.result = PyNone


(* C14: for every transcript t and budget max_tokens with                 *)
(* count_tokens(t) <= max_tokens, the empty transcript with budget 0       *)
(* included, truncate_transcript(t, max_tokens) returns t unchanged.       *)
C14_NoOpTruncation ==
    (called = "truncate_transcript" /\ count_tokens(transcript) <= max_tokens) =>
        ret = transcript

\* a transcript of several sentences, parted by more than one blank, that
\* counts exactly the budget and came back
C14_Witness ==
    /\ called = "truncate_transcript"
    /\ max_tokens > 0
    /\ count_tokens(transcript) = max_tokens
    /\ Len(SplitSentences(transcript)) > 1
    /\ \E i \in 1..Len(transcript) : transcript[i].stop /\ transcript[i].gap > 1
    /\ ret = transcript

\* the empty transcript under budget 0 came back empty
C14_EmptyWitness ==
    /\ called = "truncate_transcript"
    /\ max_tokens = 0
    /\ transcript = << >>
    /\ ret = << >>


(* C15: set never raises past the cache boundary: when serialization or   *)
(* the storage write fails, or when the cache is not connected, it returns *)
(* False and the caller continues; it returns True only if the value was   *)
(* written.                                                                *)

\* task t is a caller's set_cache that returns in this step
SetReturns(t) ==
    /\ tasks[t].op = "set"
    /\ tasks[t].by = "caller"
    /\ tasks'[t] = Idle

\* the store holds key with the document of value as stamped at instant
HoldsDocument(db, key, value, instant) ==
    /\ key \in DOMAIN db
    /\ Serializable(Stamped(value, instant))
    /\ db[key].data = json_dumps(Stamped(value, instant))

\* every return of a caller's set_cache hands the caller a bool for the
\* call it made: False when the client is missing, the value cannot be
\* serialized or the server does not answer, and True only with the
\* document in the store
C15_SetReportsWrite ==
    [][ \A t \in DOMAIN tasks :
          SetReturns(t) =>
            /\ last_op'.op = "set"
            /\ last_op'.key = tasks[t].key
            /\ last_op'.result \in { PyBool(TRUE), PyBool(FALSE) }
            /\ ( \/ redis_client' = None
                 \/ ~Serializable(Stamped(tasks[t].value, now))
                 \/ ~reachable ) => last_op'.result = PyBool(FALSE)
            /\ last_op'.result = PyBool(TRUE) =>
                 HoldsDocument(redis_db', tasks[t].key, tasks[t].value, now) ]_vars

\* a set that returned True, and before it a set that returned False on a
\* connected cache
C15_Witness ==
    /\ last_op.op = "set" /\ last_op.result = PyBool(TRUE)
    /\ prev_op.op = "set" /\ prev_op.result = PyBool(FALSE)
    /\ redis_client = "client"
    /\ HoldsDocument(redis_db, last_op.key, last_op.arg, last_op.at)

\* a set of a serializable value that returned False because the server
\* did not answer the write
C15_WriteFailed ==
    /\ last_op.op = "set" /\ last_op.result = PyBool(FALSE)
    /\ redis_client = "client"
    /\ Serializable(Stamped(last_op.arg, last_op.at))
    /\ ~reachable

\* a set that returned False because the cache never connected
C15_NotConnected ==
    /\ last_op.op = "set" /\ last_op.result = PyBool(FALSE)
    /\ redis_client = None
    /\ init_attempted


\* available_tokens of manage_history_tokens for the call made
Available == max_tokens - Min(count_tokens(question), MAX_QUESTION_TOKENS)

Fits(msg) == count_tokens(msg.content) <= Available

(* C16: when the history is non-empty and no turn fits in the available    *)
(* budget, manage_history_tokens does not raise and returns a history that *)
(* is empty or exactly one synthetic turn with role 'system' saying that   *)
(* the prior history was dropped; it never returns an original turn then.  *)
C16_NothingFitsGivesSynthetic ==
    ( /\ called = "manage_history_tokens"
      /\ history # << >>
      /\ \A i \in 1..Len(history) : ~Fits(history[i]) ) =>
        /\ ret[1] \in { << >>, << summary_msg >> }
        /\ \A i \in 1..Len(ret[1]) : \A j \in 1..Len(history) : ret[1][i] # history[j]
        /\ \A i \in 1..Len(ret[1]) : ret[1][i].role = "system"

\* the same when only the newest turn is known not to fit
C16_NewestOverflowGivesSynthetic ==
    ( /\ called = "manage_history_tokens"
      /\ history # << >>
      /\ ~Fits(history[Len(history)]) ) => ret[1] = << summary_msg >>

\* several turns, none of which fits a budget above zero, replaced by the
\* synthetic turn
C16_Witness ==
    /\ called = "manage_history_tokens"
    /\ Len(history) > 1
    /\ Available > 0
    /\ \A i \in 1..Len(history) : ~Fits(history[i])
    /\ ret[1] = << summary_msg >>

(* C18: manage_history_tokens returns a contiguous suffix of the input     *)
(* history in its original order, or the single synthetic turn: when a     *)
(* turn is dropped every older turn is dropped too, and no returned turn   *)
(* is edited.                                                              *)
Suffix(seq, n) == SubSeq(seq, Len(seq) - n + 1, Len(seq))

C18_ReturnsSuffix ==
    called = "manage_history_tokens" =>
        \/ ret[1] = << summary_msg >>
        \/ \E n \in 0..Len(history) : ret[1] = Suffix(history, n)

\* the newest turn kept, the one before it dropped for its size, and the
\* oldest dropped with it although it would have fitted
C18_Witness ==
    /\ called = "manage_history_tokens"
    /\ Len(history) = 3
    /\ ret[1] = Suffix(history, 1)
    /\ count_tokens(history[1].content) + count_tokens(history[3].content) <= Available
    /\ count_tokens(history[1].content) > 0

(* C19: whenever the total tokens of the history fit within available =    *)
(* max_history_tokens - min(count_tokens(question), MAX_QUESTION_TOKENS),  *)
(* manage_history_tokens returns the history unchanged and the remaining   *)
(* budget available - total; for the empty history too, where the          *)
(* remaining budget is available.                                          *)
C19_FittingHistoryUnchanged ==
    (called = "manage_history_tokens" /\ HistoryTokens(history) <= Available) =>
        /\ ret[1] = history
        /\ ret[2] = Available - HistoryTokens(history)

\* the same for the histories that have a turn
C19_FittingNonEmptyHistoryUnchanged ==
    ( /\ called = "manage_history_tokens"
      /\ history # << >>
      /\ HistoryTokens(history) <= Available ) =>
        /\ ret[1] = history
        /\ ret[2] = Available - HistoryTokens(history)

(* C20: manage_history_tokens treats a negative available budget as zero:  *)
(* for every history, question and max_history_tokens >= 0 the remaining   *)
(* budget it returns is >= 0, also when the question alone exceeds the     *)
(* budget and when the synthetic turn is substituted.                      *)
C20_RemainingNotNegative ==
    (called = "manage_history_tokens" /\ max_tokens >= 0) => ret[2] >= 0

\* the remaining budget is not negative when a turn of the history was
\* kept or the history was empty
C20_RemainingNotNegativeWhenKept ==
    ( /\ called = "manage_history_tokens"
      /\ ret[1] # << summary_msg >> ) => ret[2] >= 0


(* C17: the cached_at stamp of an entry is set once, by the first set of   *)
(* that key, and keeps that value across every later write of the key (a   *)
(* later set by a caller, or the statistics write that follows a get);     *)
(* only last_accessed and access_count change on later writes.             *)

\* the value the store holds for key
Held(db, key) == json_loads(db[key].data)

\* C17 as stated: no step changes the _cached_at of a key the store holds
\* before and after it.  Violated: set_cache stamps _cached_at with the
\* time of the call on every call
C17_CachedAtSetOnce ==
    [][ \A k \in DOMAIN redis_db \cap DOMAIN redis_db' :
          (Held(redis_db, k).t = "dict" /\ Held(redis_db', k).t = "dict") =>
            GetItem(Held(redis_db', k), CACHED_AT, PyNone)
              = GetItem(Held(redis_db, k), CACHED_AT, PyNone) ]_vars

\* the statistics write that follows a get leaves the payload as it was
C17_StatsWriteKeepsPayload ==
    [][ \A t \in DOMAIN tasks :
          ( /\ tasks[t].by = "deferred" /\ tasks[t].pc = "write"
            /\ tasks'[t] = Idle
            /\ tasks[t].key \in DOMAIN redis_db ) =>
            PyEqual(StripMeta(Held(redis_db', tasks[t].key)),
                    StripMeta(Held(redis_db, tasks[t].key))) ]_vars


(* C21: in every interleaving of two concurrent set/get sequences on one  *)
(* key, a caller's set(key, v2) is never overwritten by the deferred       *)
(* statistics write of a get(key) that read the older value v1: once all   *)
(* pending tasks have finished, get(key) returns the payload of the last   *)
(* set by a caller.                                                        *)

\* what get_cache(key, False) returns from the store db
Gets(db, key) == IF key \in DOMAIN db THEN json_loads(db[key].data) ELSE PyNone

C21_LastCallerSetWins ==
    AllIdle =>
        \A e \in last_set :
            e.key \in DOMAIN redis_db =>
                PyEqual(StripMeta(Gets(redis_db, e.key)), StripMeta(e.value))

\* no statistics write changes the payload the store holds
C21_StatsWriteKeepsPayload ==
    [][ \A t \in DOMAIN tasks :
          ( /\ tasks[t].by = "deferred" /\ tasks[t].pc = "write"
            /\ tasks'[t] = Idle
            /\ tasks[t].key \in DOMAIN redis_db ) =>
            PyEqual(StripMeta(Gets(redis_db', tasks[t].key)),
                    StripMeta(Gets(redis_db, tasks[t].key))) ]_vars


\* request r stores its history in this step
WritesHistory(r) ==
    /\ requests[r].pc = "write"
    /\ requests'[r].pc = "done"
    /\ requests'[r].wrote_history

\* the two turns request r adds
NewTurns(r) ==
    << Turn("user", requests[r].question), Turn("model", requests[r].answer) >>

\* the stored history of the video after the step
StoredHistoryAfter == IF video_chats' = << >> THEN << >> ELSE video_chats'[1].history

IsPrefix(a, b) == Len(a) <= Len(b) /\ SubSeq(b, 1, Len(a)) = a

(* C22: after a question on a video is processed successfully, the stored  *)
(* history of the video equals the previously stored history followed by   *)
(* the new user turn and the new model turn: stored turns are never        *)
(* removed, edited or reordered, whether or not the request carried its    *)
(* own history.                                                            *)
C22_HistoryOnlyAppended ==
    [][ \A r \in DOMAIN requests :
          WritesHistory(r) => StoredHistoryAfter = StoredHistory \o NewTurns(r) ]_vars

\* the stored turns stay in place at the head of the stored history
C22_StoredTurnsKept ==
    [][ \A r \in DOMAIN requests :
          WritesHistory(r) => IsPrefix(StoredHistory, StoredHistoryAfter) ]_vars

\* the history is appended to when the request carried none and the store
\* still holds what the request read
C22_AppendedWhenReadIsCurrent ==
    [][ \A r \in DOMAIN requests :
          ( /\ WritesHistory(r)
            /\ requests[r].req_history = << >>
            /\ requests[r].chat = (video_chats # << >>)
            /\ requests[r].history = StoredHistory \o NewTurns(r) ) =>
              StoredHistoryAfter = StoredHistory \o NewTurns(r) ]_vars

(* C23: two concurrent questions on one video can race so that one         *)
(* answer's history update is lost: an interleaving of two                 *)
(* process_video_question runs is reachable after which the stored history *)
(* holds the turns of only one of the two questions, and no lock or        *)
(* version check prevents it.                                              *)

\* the write of a request that found a chat replaces the stored history by
\* the history the request built from what it read, whatever the store
\* holds at the time of the write
C23_WriteIgnoresStore ==
    [][ \A r \in DOMAIN requests :
          (WritesHistory(r) /\ requests[r].chat) =>
              StoredHistoryAfter = requests[r].history ]_vars

Asked(h, q) == \E i \in 1..Len(h) : h[i] = Turn("user", q)

\* two questions through process_video_question, neither with a history of
\* its own, both answered and stored with success, and the stored history
\* holds the stored exchange and the second question but not the first
C23_Witness ==
    /\ \A r \in {1, 2} :
          /\ requests[r].kind = "service"
          /\ requests[r].req_history = << >>
          /\ requests[r].chat
          /\ requests[r].status = "ok"
          /\ requests[r].wrote_history
    /\ Len(video_chats) = 1
    /\ IsPrefix(StoredExchange, StoredHistory)
    /\ Asked(StoredHistory, requests[2].question)
    /\ ~Asked(StoredHistory, requests[1].question)


\* get_cache returns in this step: the call is recorded, and the tasks are
\* as they were but for the task it may have created
GetReturns ==
    /\ prev_op' = last_op
    /\ last_op'.op = "get"
    /\ last_op'.at = now
    /\ now' = now
    /\ reachable' = reachable
    /\ \A t \in DOMAIN tasks :
          tasks'[t] = tasks[t] \/ (tasks[t] = Idle /\ tasks'[t].by = "deferred")

\* the deferred write of task t fails in this step
DeferredWriteFails(t) ==
    /\ tasks[t].by = "deferred"
    /\ tasks[t].pc = "write"
    /\ tasks'[t] = Idle
    /\ ~reachable

AccessCount(value) == GetItem(value, ACCESS_COUNT, PyInt(0)).n

(* C24: a get_cache hit with update_access_stats=True returns the value    *)
(* without waiting for the write of the statistics: when it returns, the   *)
(* stored entry is as it was and the write is a task that has not started; *)
(* when that write fails, or the connection was closed first, the update   *)
(* is lost and nothing reaches the reader; with update_access_stats=False  *)
(* the stored entry is left unchanged.                                     *)
C24_ReadDoesNotWaitForStats ==
    [][ /\ (GetReturns /\ last_op'.result # PyNone) =>
              /\ last_op'.key \in DOMAIN redis_db
              /\ last_op'.key \in DOMAIN redis_db'
              /\ redis_db'[last_op'.key] = redis_db[last_op'.key]
              /\ \A t \in DOMAIN tasks :
                    tasks'[t] # tasks[t] =>
                        tasks'[t] = [op |-> "set", key |-> last_op'.key,
                                     value |-> last_op'.result, ttl |-> 0,
                                     pc |-> "check", by |-> "deferred"]
        /\ \A t \in DOMAIN tasks :
              DeferredWriteFails(t) =>
                  /\ redis_db' = redis_db
                  /\ last_op' = last_op
                  /\ prev_op' = prev_op ]_vars

\* the reader has its value with one access counted, the connection was
\* closed before the write, the task is over, and the stored entry still
\* counts no access
C24_Witness ==
    /\ AllIdle
    /\ redis_client # None
    /\ ~reachable
    /\ last_op.op = "get"
    /\ last_op.result # PyNone
    /\ AccessCount(last_op.result) = 1
    /\ last_op.key \in DOMAIN redis_db
    /\ AccessCount(json_loads(redis_db[last_op.key].data)) = 0

\* a get without the statistics has returned the entry as it is stored
C24_UntouchedWitness ==
    /\ AllIdle
    /\ reachable
    /\ last_op.op = "get"
    /\ last_op.result # PyNone
    /\ AccessCount(last_op.result) = 0
    /\ last_op.key \in DOMAIN redis_db
    /\ last_op.result = json_loads(redis_db[last_op.key].data)


\* task t passes the check of set_cache in this step
ChecksCapacity(t) == tasks[t].pc = "check" /\ tasks'[t].pc = "write"

KeyCount(db) == Cardinality(DOMAIN db)

(* C25: the capacity check of a set has one trigger. With maxmemory above  *)
(* 0 keys are evicted exactly when used_memory / maxmemory * 100 is above  *)
(* MAX_MEMORY_PERCENT, whatever the number of keys; with maxmemory 0 keys  *)
(* are evicted exactly when the number of keys is above MAX_CACHE_KEYS. A  *)
(* set at exactly the ceiling evicts nothing.                              *)
C25_OneTrigger ==
    [][ \A t \in DOMAIN tasks :
          ChecksCapacity(t) =>
              ( redis_db' # redis_db <=>
                  IF maxmemory > 0
                  THEN /\ used_memory * 100 > MAX_MEMORY_PERCENT * maxmemory
                       /\ KeyCount(redis_db) > 0
                  ELSE KeyCount(redis_db) > max_cache_keys ) ]_vars

\* a set has passed its check with as many keys as MAX_CACHE_KEYS and
\* nothing was ever evicted
C25_Witness ==
    /\ \E t \in DOMAIN tasks : tasks[t].pc = "write" /\ tasks[t].by = "caller"
    /\ maxmemory = 0
    /\ KeyCount(redis_db) = max_cache_keys
    /\ ~last_cleanup.ran

\* a set has passed its check at exactly MAX_MEMORY_PERCENT with more keys
\* than MAX_CACHE_KEYS and nothing was ever evicted
C25_MemoryWitness ==
    /\ \E t \in DOMAIN tasks : tasks[t].pc = "write" /\ tasks[t].by = "caller"
    /\ maxmemory > 0
    /\ used_memory * 100 = MAX_MEMORY_PERCENT * maxmemory
    /\ KeyCount(redis_db) > max_cache_keys
    /\ ~last_cleanup.ran

\* keys have been evicted in each mode
C25_EvictedWitness ==
    /\ last_cleanup.ran
    /\ last_cleanup.removed # {}
    /\ maxmemory = 0


(* C26: with maxmemory 0 and every operation run to completion before the *)
(* next, the number of keys never exceeds MAX_CACHE_KEYS + 1; sets that    *)
(* interleave can exceed that bound.                                       *)
C26_SequentialBound ==
    maxmemory = 0 => KeyCount(redis_db) <= max_cache_keys + 1

\* the bound is met: a sequential caller's set has left MAX_CACHE_KEYS + 1
\* keys after an eviction
C26_Witness ==
    /\ AllIdle
    /\ maxmemory = 0
    /\ last_op.op = "set"
    /\ last_cleanup.ran
    /\ KeyCount(redis_db) = max_cache_keys + 1

\* the bound with callers that interleave
C26_BoundWhenInterleaved ==
    [](maxmemory = 0 => KeyCount(redis_db) <= max_cache_keys + 1)


\* the chunks are pairwise different, so that a returned chunk tells its
\* place in the chunk list
ChunksDiffer(cs) == \A i, j \in 1..Len(cs) : i # j => cs[i] # cs[j]

IndexOf(cs, c) == CHOOSE i \in 1..Len(cs) : cs[i] = c

\* the places in the chunk list of the chunks the result holds
ReturnedPlaces(result, cs) == { IndexOf(cs, result[i].chunk) : i \in 1..Len(result) }

\* chunks of equal score come in the order of the chunk list, and of two
\* chunks of equal score at the cut the earlier one is returned
TiesInChunkOrder(result, cs, embeddings) ==
    /\ \A i, j \in 1..Len(result) :
          (i < j /\ result[i].score = result[j].score) =>
              IndexOf(cs, result[i].chunk) < IndexOf(cs, result[j].chunk)
    /\ \A i \in 1..Len(result) :
          \A c \in (1..Len(cs)) \ ReturnedPlaces(result, cs) :
              embeddings.rows[c] = result[i].score =>
                  IndexOf(cs, result[i].chunk) < c

(* C27: chunks of equal similarity are returned in the order of the chunk  *)
(* list, the earlier chunk first, and when the top_k cut falls between     *)
(* chunks of equal similarity the earlier chunk is the one returned.       *)
C27_TiesInChunkOrder ==
    ( /\ called = "search_relevant_chunks" /\ SearchRan /\ ChunksDiffer(chunks)
      /\ top_k >= 1 ) =>
        TiesInChunkOrder(ret, chunks, chunk_embeddings)

\* the argsort that keeps equal similarities in index order
StableArgSort(similarities) ==
    CHOOSE p \in ArgSorts(similarities) :
        \A i, j \in 1..Len(similarities) :
            (i < j /\ similarities[p[i]] = similarities[p[j]]) => p[i] < p[j]

\* when argsort keeps equal similarities in index order, the reversal
\* returns chunks of equal score later chunk first
C27_StableSortGivesLaterFirst ==
    ( /\ called = "search_relevant_chunks" /\ SearchRan /\ ChunksDiffer(chunks)
      /\ ret = search_relevant_chunks(chunks, chunk_embeddings, embedder, top_k,
                                      StableArgSort(chunk_embeddings.rows)) ) =>
        \A i, j \in 1..Len(ret) :
            (i < j /\ ret[i].score = ret[j].score) =>
                IndexOf(chunks, ret[i].chunk) > IndexOf(chunks, ret[j].chunk)


(* C28: chunk_transcript terminates for every transcript when              *)
(* chunk_size > chunk_overlap >= 0. When chunk_overlap >= chunk_size and   *)
(* the transcript has more than chunk_size words, the window never         *)
(* advances and the loop has no guard that stops it: as long as the loop   *)
(* runs, start stays at 0 or below and the loop condition stays true.      *)
C28_TerminatesOnlyWhenWindowAdvances ==
    /\ (chunk_overlap < chunk_size) => <>(called = "chunk_transcript")
    /\ []( ( /\ called = "chunk_transcript:while"
             /\ chunk_overlap >= chunk_size ) =>
                ( /\ start <= 0
                  /\ start < Len(SplitWords(transcript)) ) )

\* the loop has appended MaxIterations chunks and its window is where it
\* began, or before
C28_Witness ==
    /\ called = "chunk_transcript:while"
    /\ chunk_overlap >= chunk_size
    /\ Len(SplitWords(transcript)) > chunk_size
    /\ Len(chunks) = MaxIterations
    /\ start <= 0

\* a call with an overlap below the chunk size has returned from its loop
C28_ReturnedWitness ==
    /\ called = "chunk_transcript"
    /\ chunk_overlap < chunk_size
    /\ chunk_overlap > 0
    /\ Len(ret) >= 3

\* every call returns
C28_AlwaysTerminates == <>(called = "chunk_transcript")


(* C29: the embedding model is initialised at most once per process:      *)
(* after a failed attempt, later create_embeddings and                     *)
(* search_relevant_chunks calls report failure without attempting the      *)
(* initialisation again; after a success the same instance is reused.      *)
C29_InitialisedAtMostOnce == load_attempts <= 1

\* after a failed attempt no call attempts the initialisation again
C29_NoAttemptAfterFailure ==
    [][ (load_attempts > 0 /\ embedding_model = None) =>
            load_attempts' = load_attempts ]_vars

\* after a failed attempt create_embeddings gives None
C29_FailureReportedAfterFailure ==
    [][ ( /\ load_attempts > 0 /\ embedding_model = None
          /\ called' = "create_embeddings" /\ chunks' # << >> ) =>
            chunk_embeddings'.none ]_vars

\* after a success the instance stays and nothing is loaded again
C29_InstanceReused ==
    [][ embedding_model # None =>
            (embedding_model' = embedding_model /\ load_attempts' = load_attempts) ]_vars

\* a call after a failed attempt has loaded the model and returned
\* embeddings
C29_LoadedOnSecondAttempt ==
    /\ load_attempts = 2
    /\ embedding_model # None
    /\ called = "create_embeddings"
    /\ ~chunk_embeddings.none


\* the tokenizer package cannot be imported or its encoding not loaded
TokenizerUnusable == ~tiktoken_pkg.installed \/ tiktoken_pkg.encoding # "ok"

(* C30: when the tokenizer package cannot be imported, or its encoding     *)
(* cannot be loaded, the token-management module still initialises and     *)
(* count_tokens returns len(text) // 4, an empty or None text counting 0.  *)
C30_FallbackWhenTokenizerUnusable ==
    (TokenizerUnusable /\ token_module # "unloaded") =>
        /\ token_module = "fallback"
        /\ called = "count_tokens" =>
              /\ ret.raised = ""
              /\ ret.value = IF ret.is_none THEN 0
                             ELSE ret.length \div CHARS_PER_TOKEN

\* with the fallback in place a str counts len(text) // 4 tokens, the empty
\* str 0
C30_FallbackCountsQuarter ==
    (token_module = "fallback" /\ called = "count_tokens" /\ ~ret.is_none) =>
        (ret.raised = "" /\ ret.value = ret.length \div CHARS_PER_TOKEN)

\* the module initialises when get_encoding raises ImportError
C30_FallbackOnImportErrorOfEncoding ==
    ( /\ tiktoken_pkg.installed /\ tiktoken_pkg.encoding = "ImportError"
      /\ token_module # "unloaded" ) => token_module = "fallback"

\* the import of the module has failed for a package that is not installed
C30_ImportFailed ==
    /\ ~tiktoken_pkg.installed
    /\ token_module = "failed"

\* count_tokens(None) has raised with the fallback in place
C30_NoneRaises ==
    /\ token_module = "fallback"
    /\ called = "count_tokens"
    /\ ret.is_none
    /\ ret.raised = "TypeError"


====
